---- MODULE Spec2Model ----
(***************************************************************************)
(* RankSaga/chat-interface: the streaming block pipeline of the frontend   *)
(* hook useStreamingQuery (src/examples/frontend/useStreamingQuery.ts).    *)
(*                                                                         *)
(* A JavaScript string is a sequence of text pieces (each piece one TLA+   *)
(* string): concatenation is \o, the empty string is <<>>.  A JavaScript   *)
(* object is a function whose DOMAIN is the set of its keys.               *)
(***************************************************************************)
EXTENDS Integers, Sequences, FiniteSets, TLC

(***************************************************************************)
(* Bounds of the model                                                     *)
(***************************************************************************)
\* lines of the stream that one invocation gets to process
MaxEvents == 3
\* newline-terminated lines one transport chunk can complete
MaxChunkLines == 2

(***************************************************************************)
(* Strings and objects                                                     *)
(***************************************************************************)
EmptyObject == [k \in {} |-> <<>>]

\* obj[key] = v (creates the key when it is missing)
Put(obj, key, v) == [k \in (DOMAIN obj) \cup {key} |-> IF k = key THEN v ELSE obj[k]]

\* { ...a, ...b }: the keys of b win
Spread(a, b) == [k \in (DOMAIN a) \cup (DOMAIN b) |-> IF k \in DOMAIN b THEN b[k] ELSE a[k]]

\* a || b on strings: the empty string is falsy
OrElse(a, b) == IF a # <<>> THEN a ELSE b

Whitespace == {" ", "\n"}

RECURSIVE TrimStart(_)
TrimStart(s) == IF s # <<>> /\ Head(s) \in Whitespace THEN TrimStart(Tail(s)) ELSE s

RECURSIVE TrimEnd(_)
TrimEnd(s) == IF s # <<>> /\ s[Len(s)] \in Whitespace
              THEN TrimEnd(SubSeq(s, 1, Len(s) - 1)) ELSE s

\* String.prototype.trim
Trim(s) == TrimEnd(TrimStart(s))

RECURSIVE SplitAcc(_, _, _)
SplitAcc(s, cur, acc) ==
    IF s = <<>> THEN Append(acc, cur)
    ELSE IF Head(s) = "|" THEN SplitAcc(Tail(s), <<>>, Append(acc, cur))
    ELSE SplitAcc(Tail(s), Append(cur, Head(s)), acc)

\* value.split('|').map(s => s.trim())
SplitCells(value) ==
    LET parts == SplitAcc(value, <<>>, <<>>)
    IN  [i \in 1..Len(parts) |-> Trim(parts[i])]

\* Array.prototype.join
RECURSIVE Join(_, _)
Join(strs, sep) ==
    IF strs = <<>> THEN <<>>
    ELSE IF Len(strs) = 1 THEN strs[1]
    ELSE strs[1] \o sep \o Join(Tail(strs), sep)

\* .filter(Boolean) on an array of strings
RECURSIVE FilterNonEmpty(_)
FilterNonEmpty(strs) ==
    IF strs = <<>> THEN <<>>
    ELSE IF Head(strs) = <<>> THEN FilterNonEmpty(Tail(strs))
    ELSE <<Head(strs)>> \o FilterNonEmpty(Tail(strs))

\* `${n}` for a natural number
RECURSIVE Decimal(_)
Decimal(n) ==
    LET digit == <<"0", "1", "2", "3", "4", "5", "6", "7", "8", "9">>
    IN  IF n < 10 THEN <<digit[n + 1]>> ELSE Decimal(n \div 10) \o <<digit[(n % 10) + 1]>>

\* data.key || dflt
Field(data, key, dflt) == IF key \in DOMAIN data /\ data[key] # <<>> THEN data[key] ELSE dflt

(***************************************************************************)
(* Block assembly helpers                                                  *)
(***************************************************************************)
ArrayPaths == {"rows", "items", "steps"}

\* the state a block_start / an auto-created block begins with
NewBlockState(blockId, blockType) ==
    [block_id |-> blockId, block_type |-> blockType, data |-> EmptyObject,
     streaming |-> TRUE, partial |-> FALSE]

\* history: what the stream has said of a block since it was opened
NewHistory(blockId, blockType) ==
    [block_id |-> blockId, declared |-> blockType, deltas |-> <<>>]

\* a faulty merge rule, which replaces the text at a path instead of appending to it:
\* the round trip of C1 must tell it from applyBlockDelta
applyBlockDeltaOverwrite(state, path, value) ==
    LET data == state.data
        arr  == IF path \in DOMAIN data THEN data[path] ELSE <<>>
    IN  [state EXCEPT !.data =
            IF path = "rows" THEN Put(data, path, Append(arr, SplitCells(value)))
            ELSE IF path \in ArrayPaths THEN Put(data, path, Append(arr, value))
            ELSE IF path = "headers" THEN Put(data, path, SplitCells(value))
            ELSE Put(data, path, value)]

\* a faulty merge rule, which keeps only the latest element at an accumulating path
applyBlockDeltaLatestOnly(state, path, value) ==
    LET data == state.data
    IN  [state EXCEPT !.data =
            IF path = "rows" THEN Put(data, path, <<SplitCells(value)>>)
            ELSE IF path \in ArrayPaths THEN Put(data, path, <<value>>)
            ELSE IF path = "headers" THEN Put(data, path, SplitCells(value))
            ELSE IF path \in DOMAIN data THEN Put(data, path, data[path] \o value)
            ELSE Put(data, path, value)]

\* the path-specific merge rule
applyBlockDelta(state, path, value) ==
    LET data == state.data
        arr  == IF path \in DOMAIN data THEN data[path] ELSE <<>>
        newData ==
            IF path \in ArrayPaths
            THEN IF path = "rows"
                 THEN Put(data, path, Append(arr, SplitCells(value)))
                 ELSE Put(data, path, Append(arr, value))
            ELSE IF path = "headers"
            THEN Put(data, path, SplitCells(value))
            ELSE IF path \in DOMAIN data      \* typeof existing === 'string'
                 THEN Put(data, path, data[path] \o value)
                 ELSE Put(data, path, value)
    IN  [state EXCEPT !.data = newData]

stateToContentBlock(state) ==
    [type |-> state.block_type,
     data |-> Spread([id |-> state.block_id], state.data)]

buildBlocksFromState(completed, streaming) ==
    completed \o [i \in 1..Len(streaming) |-> stateToContentBlock(streaming[i])]

\* the three backquotes that open and close a code fence
Fence == "<fence>"

\* the text of one block in blocksToTextFallback
BlockText(block) ==
    LET data == block.data
    IN  CASE block.type \in {"text", "markdown"} -> Field(data, "content", <<>>)
          [] block.type = "list" -> Join(Field(data, "items", <<>>), <<"\n">>)
          [] block.type = "steps" ->
                LET steps == Field(data, "steps", <<>>)
                IN  Join([i \in 1..Len(steps) |-> Decimal(i) \o <<". ">> \o steps[i]], <<"\n">>)
          [] block.type = "table" ->
                <<"[Table: ">> \o Join(Field(data, "headers", <<>>), <<", ">>) \o <<"]">>
          [] block.type = "code" ->
                <<Fence>> \o Field(data, "language", <<>>) \o <<"\n">>
                    \o Field(data, "code", <<>>) \o <<Fence>>
          [] OTHER -> <<>>

blocksToTextFallback(blocks) ==
    Join(FilterNonEmpty([i \in 1..Len(blocks) |-> BlockText(blocks[i])]), <<"\n", "\n">>)

(***************************************************************************)
(* The Map of streaming blocks: a sequence of states in insertion order    *)
(***************************************************************************)
MapHas(map, blockId) == \E i \in 1..Len(map) : map[i].block_id = blockId

MapIndex(map, blockId) == CHOOSE i \in 1..Len(map) : map[i].block_id = blockId

MapGet(map, blockId) == map[MapIndex(map, blockId)]

\* Map.set: an existing key keeps its place, a new key goes last
MapSet(map, blockId, state) ==
    IF MapHas(map, blockId)
    THEN [map EXCEPT ![MapIndex(map, blockId)] = state]
    ELSE Append(map, state)

\* Map.delete
MapDelete(map, blockId) ==
    LET keep == {i \in 1..Len(map) : map[i].block_id # blockId}
        Nth(n) == CHOOSE i \in keep : Cardinality({j \in keep : j < i}) = n - 1
    IN  [n \in 1..Cardinality(keep) |-> map[Nth(n)]]

(***************************************************************************)
(* What the stream can carry (the inputs of the model)                     *)
(***************************************************************************)
B1 == <<"b1">>
B2 == <<"b2">>
BlockIds == {B1, B2}

\* block_type of a block_start: a type the client knows, and one it does not
DeclaredTypes == {"text", "future_kind"}

KnownTypes == {"text", "table", "list", "code", "markdown", "quote", "divider", "callout",
               "key_value", "json", "metric", "steps", "media", "error", "unknown"}

\* block_start events: <<block_id, block_type>>
StartInputs == ({B1} \X DeclaredTypes) \cup {<<B2, "text">>}

ValueA == <<"a">>
ValueB == <<" ", "b", "|", "c">>

\* block_delta events: <<block_id, path, value>>
DeltaInputs ==
    ({B1} \X {"content", "items"} \X {ValueA, ValueB})
        \cup {<<B1, "rows", ValueB>>, <<B1, "headers", ValueB>>, <<B1, "id", ValueA>>,
              <<B1, "steps", ValueA>>, <<B2, "content", ValueA>>}

\* block_end events: <<block_id, partial>>
EndInputs == ({B1} \X BOOLEAN) \cup {<<B2, FALSE>>}

\* data.data of a 'response' event
ResponseTexts == {<<"r">>}

\* data.data of a 'citations' event: arrays of raw citations; <<>> is a missing number
CitationPayloads == {<<[citation_number |-> <<>>, content |-> <<"src">>, score |-> 90]>>}

\* confidence_score of a 'confidence_update' event, in percent
UpdateScores == {80}

\* confidence_score of a 'done' event: <<>> when the event carries none
DoneScores == {<<>>, <<90>>}

\* the message of an 'error' event: <<>> when the event carries none
ErrorTexts == {<<>>, <<"boom">>}

\* what a rejected fetch throws
Errs == {[name |-> "TypeError", message |-> <<"Failed to fetch">>],
         [name |-> "AbortError", message |-> <<"aborted">>],
         [name |-> "Error", message |-> <<"network error">>],
         [name |-> "Error", message |-> <<>>]}

\* what a rejected read throws
ReadErrs == {[name |-> "Error", message |-> <<"network error">>]}

HttpStatuses == {401, 500}

\* stopAt, malformedAt: the event has not happened (otherwise <<n>>)
NoMark == <<>>

\* a value that may be missing is a sequence of at most one element: null and
\* undefined are the empty one
null == <<>>
undefined == <<>>

(***************************************************************************)
(* State                                                                   *)
(***************************************************************************)
VARIABLES
    \* the hook: refs and React state
    streamReaderRef,     \* TRUE when streamReaderRef.current holds a reader
    stopStreamingRef,    \* stopStreamingRef.current
    timeoutRef,          \* TRUE when timeoutRef.current holds a timer handle
    confidenceState,     \* the React state behind setConfidence
    \* one streamQuery invocation
    pc,                  \* where the invocation stands
    confidence,          \* the value of `confidence` the callback closed over
    buffer,              \* the unterminated rest of the decoded text
    linesLeft,           \* lines of the current chunk still to be looked at
    fullResponse,
    citations,
    receivedDoneEvent,
    streamingBlocks,
    completedBlocks,
    pendingUpdate,
    rafId,               \* 0 is null
    \* the browser and the transport
    rafQueue,            \* handles of the registered animation-frame callbacks
    timerPending,        \* the setTimeout callback has neither run nor been cleared
    readerCancelled,     \* reader.cancel() was called: a read resolves with done
    nLines,              \* lines handed to the invocation so far
    \* what the collaborator has seen
    updates,             \* the arguments of the onMessageUpdate calls, in order
    errors,              \* the arguments of the onError calls, in order
    frameUpdates,        \* streaming=true updates since the last frame boundary
    \* what the stream has carried (history, read by no action)
    openHistory,         \* per open block: its id, declared type and deltas, in order
    closedHistory,       \* the same per completed block, with the partial flag of its end
    endedIds,            \* the block ids that block_end events have named
    views,               \* per update: the blocks it handed over, as they read now
    stopAt,              \* the number of updates delivered when stopStreaming took hold
    malformedAt,         \* the same when the latest undecodable line was skipped
    requestedAt,         \* updates delivered and lines handled when stopStreaming was first
                         \* called during the invocation, whether it took hold or not
    scoresSeen,          \* the confidence_score of each confidence_update and done event
                         \* handled, in order
    \* an SSEParser (utils/sse_parser.ts)
    currentEventName,    \* null, or the name the latest 'event:' line gave
    sseLines,            \* the arguments of the parseLine calls, in order (history)
    sseResults,          \* what each parseLine call returned, in order (history)
    legacyCalls,         \* the parseSSELine calls: line and result, in order (history)
    \* an AdaptiveCoalescer and an IncrementalStructuredParser (server side)
    clock,               \* the latest reading of the clock
    coalescer,           \* the CoalescerState
    arrivals,            \* when each token now in the buffer was pushed (history)
    coCalls,             \* the push and flush calls on the coalescer, in order (history)
    ispBuffer,           \* the parser's buffer
    ispCalls,            \* the push and flush calls on the parser, in order (history)
    \* a ConfidenceScorer (server side)
    scoreCalls,          \* the calculate_confidence_score calls, in order (history)
    \* the line buffer of the read loop, on a given stream
    wire,                \* null, or the stream: the text received so far, the text still to
                         \* come, the number of chunks read, whether the loop has ended
    lineBuffer,          \* buffer
    framingStop,         \* stopStreamingRef.current, as far as done and error lines raise it
    handled,             \* the payloads of the 'data: ' lines handled, in order (history)
    \* two streamQuery invocations of one hook, which overlap
    sharedReaderRef,     \* streamReaderRef.current: 0 is null, else the invocation whose
                         \* reader it holds
    sharedStopRef,       \* stopStreamingRef.current
    sharedTimeoutRef,    \* timeoutRef.current: 0 is null, else the invocation whose timer
                         \* handle it holds
    invocations,         \* per invocation: where it stands, whether its reader was
                         \* cancelled, whether its timer is pending, the chunks of event
                         \* lines it has handled
    stopMark             \* null, or the chunks each invocation had handled when
                         \* stopStreaming was called with both in their read loops

hookVars == <<streamReaderRef, stopStreamingRef, timeoutRef, confidenceState>>
blockVars == <<streamingBlocks, completedBlocks>>
rafVars == <<pendingUpdate, rafId, rafQueue>>
histVars == <<openHistory, closedHistory, endedIds>>
markVars == <<stopAt, malformedAt, requestedAt, scoresSeen>>
streamVars == <<streamReaderRef, stopStreamingRef, timeoutRef, confidenceState, pc, confidence,
          buffer, linesLeft, fullResponse, citations, receivedDoneEvent, streamingBlocks,
          completedBlocks, pendingUpdate, rafId, rafQueue, timerPending, readerCancelled,
          nLines, updates, errors, frameUpdates, openHistory, closedHistory, endedIds,
          views, stopAt, malformedAt, requestedAt, scoresSeen>>
parserVars == <<currentEventName, sseLines, sseResults, legacyCalls>>
coalescerVars == <<clock, coalescer, arrivals, coCalls>>
ispVars == <<ispBuffer, ispCalls>>
scorerVars == <<scoreCalls>>
framingVars == <<wire, lineBuffer, framingStop, handled>>
overlapVars == <<sharedReaderRef, sharedStopRef, sharedTimeoutRef, invocations, stopMark>>
libVars == <<parserVars, coalescerVars, ispVars, scorerVars, framingVars, overlapVars>>
vars == <<streamVars, libVars>>

Init ==
    /\ streamReaderRef = FALSE
    /\ stopStreamingRef = FALSE
    /\ timeoutRef = FALSE
    /\ confidenceState = 0
    /\ pc = "idle"
    /\ confidence = 0
    /\ buffer = <<>>
    /\ linesLeft = 0
    /\ fullResponse = <<>>
    /\ citations = <<>>
    /\ receivedDoneEvent = FALSE
    /\ streamingBlocks = <<>>
    /\ completedBlocks = <<>>
    /\ pendingUpdate = FALSE
    /\ rafId = 0
    /\ rafQueue = {}
    /\ timerPending = FALSE
    /\ readerCancelled = FALSE
    /\ nLines = 0
    /\ updates = <<>>
    /\ errors = <<>>
    /\ frameUpdates = 0
    /\ openHistory = <<>>
    /\ closedHistory = <<>>
    /\ endedIds = {}
    /\ views = <<>>
    /\ stopAt = NoMark
    /\ malformedAt = NoMark
    /\ requestedAt = NoMark
    /\ scoresSeen = <<>>
    /\ currentEventName = null
    /\ sseLines = <<>>
    /\ sseResults = <<>>
    /\ legacyCalls = <<>>
    /\ clock = 0
    /\ coalescer = [buffer |-> <<>>, block_start_time |-> 0, last_emit_time |-> 0,
                    tokens_received |-> 0, deltas_emitted |-> 0, emitted_chars |-> 0]
    /\ arrivals = <<>>
    /\ coCalls = <<>>
    /\ ispBuffer = <<>>
    /\ ispCalls = <<>>
    /\ scoreCalls = <<>>
    /\ wire = null
    /\ lineBuffer = <<>>
    /\ framingStop = FALSE
    /\ handled = <<>>
    /\ sharedReaderRef = 0
    /\ sharedStopRef = FALSE
    /\ sharedTimeoutRef = 0
    /\ invocations = [i \in {1, 2} |->
                         [pc |-> "idle", cancelled |-> FALSE, timer |-> FALSE, handled |-> 0]]
    /\ stopMark = null

\* the number of streaming=true updates among msgs
\* what an onMessageUpdate call hands over, as an object graph: per block of
\* msg.blocks the ContentBlock, and whether it was built from a state that is still
\* in the Map (origin: its key), whose arrays the ContentBlock then shares
ViewOf(msg) ==
    IF "blocks" \in DOMAIN msg
    THEN [k \in 1..Len(msg.blocks) |->
            IF k > Len(completedBlocks)
            THEN [origin |-> streamingBlocks[k - Len(completedBlocks)].block_id,
                  live |-> TRUE, block |-> msg.blocks[k]]
            ELSE [origin |-> <<>>, live |-> FALSE, block |-> msg.blocks[k]]]
    ELSE <<>>

\* the state of blockId leaves the Map (set over it, or delete): no later push reaches
\* the arrays that the delivered ContentBlocks share with it
Sever(vs, blockId) ==
    [i \in 1..Len(vs) |->
        [k \in 1..Len(vs[i]) |->
            IF vs[i][k].origin = blockId THEN [vs[i][k] EXCEPT !.live = FALSE]
            ELSE vs[i][k]]]

\* arr.push(elem) on data[path] of the state of blockId: every delivered ContentBlock
\* that holds the same array shows the new element
PushShared(vs, blockId, path, elem) ==
    [i \in 1..Len(vs) |->
        [k \in 1..Len(vs[i]) |->
            IF /\ vs[i][k].live
               /\ vs[i][k].origin = blockId
               /\ path \in DOMAIN vs[i][k].block.data
            THEN [vs[i][k] EXCEPT !.block.data[path] = Append(@, elem)]
            ELSE vs[i][k]]]

StreamingCount(msgs) == Cardinality({i \in 1..Len(msgs) : msgs[i].streaming})

(***************************************************************************)
(* Frame batching (requestAnimationFrame)                                  *)
(***************************************************************************)
\* the handle requestAnimationFrame returns: one that is not in use
NewHandle == CHOOSE h \in 1..(Cardinality(rafQueue) + 1) : h \notin rafQueue

\* a faulty batcher, which marks an update pending without registering the frame
\* callback: C9 must tell it from scheduleUpdate
scheduleUpdateUnregistered ==
    /\ pendingUpdate' = TRUE
    /\ UNCHANGED <<rafId, rafQueue>>

\* a faulty batcher, which registers a frame callback at every call: C37 must tell it
\* from scheduleUpdate
scheduleUpdateUnguarded ==
    /\ pendingUpdate' = TRUE
    /\ rafId' = NewHandle
    /\ rafQueue' = rafQueue \cup {NewHandle}

scheduleUpdate ==
    IF pendingUpdate
    THEN UNCHANGED rafVars
    ELSE /\ pendingUpdate' = TRUE
         /\ rafId' = NewHandle
         /\ rafQueue' = rafQueue \cup {NewHandle}

cancelScheduledUpdate ==
    /\ rafQueue' = IF rafId # 0 THEN rafQueue \ {rafId} ELSE rafQueue
    /\ rafId' = 0
    /\ pendingUpdate' = FALSE

\* JavaScript runs one task at a time: a frame, a timer or a user event only runs
\* while streamQuery is suspended at an await, and not between the resolution of a
\* promise and the continuation waiting on it (a cancelled read resolves at once)
Suspended ==
    /\ pc \in {"idle", "fetch", "read", "cancel", "finished"}
    /\ ~(pc = "read" /\ readerCancelled)

\* a display frame: the registered callbacks run, and a new frame interval begins
AnimationFrame ==
    /\ Suspended
    /\ rafQueue # {} \/ frameUpdates # 0
    /\ LET n == Cardinality(rafQueue)
           currentBlocks == buildBlocksFromState(completedBlocks, streamingBlocks)
           msg == [content |-> blocksToTextFallback(currentBlocks),
                   blocks |-> currentBlocks,
                   streaming |-> TRUE]
       IN  /\ rafQueue' = {}
           /\ pendingUpdate' = IF n > 0 THEN FALSE ELSE pendingUpdate
           /\ rafId' = IF n > 0 THEN 0 ELSE rafId
           /\ fullResponse' = IF n > 0 THEN msg.content ELSE fullResponse
           /\ updates' = updates \o [i \in 1..n |-> msg]
           /\ views' = views \o [i \in 1..n |-> ViewOf(msg)]
           /\ frameUpdates' = n
    /\ UNCHANGED <<libVars, histVars, markVars, hookVars, pc, confidence, buffer, linesLeft, citations, receivedDoneEvent,
                   blockVars, timerPending, readerCancelled, nLines, errors>>

(***************************************************************************)
(* Leaving streamQuery                                                     *)
(***************************************************************************)
\* onMessageUpdate(msgs[1]), onMessageUpdate(msgs[2]), ...
DeliverAll(msgs) ==
    /\ updates' = updates \o msgs
    /\ views' = views \o [i \in 1..Len(msgs) |-> ViewOf(msgs[i])]
    /\ frameUpdates' = frameUpdates + StreamingCount(msgs)

\* if (timeoutRef.current) { clearTimeout(timeoutRef.current); timeoutRef.current = null }
ClearTimeout ==
    /\ timerPending' = IF timeoutRef THEN FALSE ELSE timerPending
    /\ timeoutRef' = FALSE

\* the finally block
Finally ==
    /\ streamReaderRef' = FALSE
    /\ stopStreamingRef' = FALSE
    /\ ClearTimeout
    /\ pc' = "finished"

\* the message the catch block reports for err
CatchMessage(err) ==
    IF err.name = "TypeError" /\ err.message = <<"Failed to fetch">>
    THEN <<"Cannot connect to API server. Please check your network connection.">>
    ELSE IF err.name = "AbortError"
    THEN <<"Request was cancelled. Please try again.">>
    ELSE IF err.message # <<>>
    THEN err.message
    ELSE <<"An error occurred while processing your query">>

\* a throw inside the try block, after msgsBefore were delivered and errsBefore reported
Catch(err, msgsBefore, errsBefore) ==
    /\ errors' = errors \o errsBefore \o <<CatchMessage(err)>>
    /\ DeliverAll(msgsBefore \o <<[content |-> CatchMessage(err), streaming |-> FALSE]>>)
    /\ Finally

\* blocks: finalBlocks.length > 0 ? finalBlocks : undefined
WithBlocks(msg, finalBlocks) ==
    IF Len(finalBlocks) > 0 THEN Spread(msg, [blocks |-> finalBlocks]) ELSE msg

\* the code after the read loop, and the finally block
AfterLoop ==
    /\ cancelScheduledUpdate
    /\ LET finalBlocks == buildBlocksFromState(completedBlocks, streamingBlocks)
           noData == <<"No response received from the server. The stream ended without data.">>
       IN  IF receivedDoneEvent
           THEN UNCHANGED <<updates, views, frameUpdates, errors>>
           ELSE IF fullResponse # <<>> \/ Len(citations) > 0 \/ Len(finalBlocks) > 0
           THEN /\ DeliverAll(<<WithBlocks(
                        [content |-> OrElse(blocksToTextFallback(finalBlocks),
                                       OrElse(fullResponse,
                                              <<"Response stream ended unexpectedly.">>)),
                         citations |-> citations,
                         streaming |-> FALSE], finalBlocks)>>)
                /\ UNCHANGED errors
           ELSE IF ~stopStreamingRef
           THEN /\ DeliverAll(<<[content |-> noData, streaming |-> FALSE]>>)
                /\ errors' = Append(errors, noData)
           ELSE UNCHANGED <<updates, views, frameUpdates, errors>>
    /\ Finally

(***************************************************************************)
(* streamQuery up to the read loop                                         *)
(***************************************************************************)
\* the top of while (true)
LoopTop(stop) == IF stop THEN "cancel" ELSE "read"

\* streamQuery(query, options) is called: the callback of the latest render
StreamQuery ==
    /\ pc = "idle"
    /\ stopStreamingRef' = FALSE
    /\ confidence' = confidenceState
    /\ pc' = "fetch"
    /\ UNCHANGED <<libVars, histVars, markVars, streamReaderRef, timeoutRef, confidenceState, buffer, linesLeft, fullResponse,
                   citations, receivedDoneEvent, blockVars, rafVars, timerPending,
                   readerCancelled, nLines, updates, views, errors, frameUpdates>>

\* await fetch(...) rejects
FetchRejects ==
    /\ pc = "fetch"
    /\ \E err \in Errs : Catch(err, <<>>, <<>>)
    /\ UNCHANGED <<libVars, histVars, markVars, confidenceState, confidence, buffer, linesLeft, fullResponse, citations,
                   receivedDoneEvent, blockVars, rafVars, readerCancelled, nLines>>

\* !response.ok
FetchNotOk ==
    /\ pc = "fetch"
    /\ \E status \in HttpStatuses, onAuthError \in BOOLEAN :
          IF status = 401 /\ onAuthError
          THEN /\ Finally
               /\ UNCHANGED <<updates, views, errors, frameUpdates>>
          ELSE LET errorText == <<"HTTP error! status: ">> \o Decimal(status)
               IN  Catch([name |-> "Error", message |-> errorText], <<>>, <<errorText>>)
    /\ UNCHANGED <<libVars, histVars, markVars, confidenceState, confidence, buffer, linesLeft, fullResponse, citations,
                   receivedDoneEvent, blockVars, rafVars, readerCancelled, nLines>>

\* response.body is missing
FetchNoBody ==
    /\ pc = "fetch"
    /\ LET errorMsg == <<"No response body received from server">>
       IN  Catch([name |-> "Error", message |-> errorMsg],
                 <<[content |-> errorMsg, streaming |-> FALSE]>>, <<errorMsg>>)
    /\ UNCHANGED <<libVars, histVars, markVars, confidenceState, confidence, buffer, linesLeft, fullResponse, citations,
                   receivedDoneEvent, blockVars, rafVars, readerCancelled, nLines>>

\* the reader is obtained, the locals are initialised, the timeout is armed
FetchOk ==
    /\ pc = "fetch"
    /\ streamReaderRef' = TRUE
    /\ timeoutRef' = TRUE
    /\ timerPending' = TRUE
    /\ pc' = LoopTop(stopStreamingRef)
    /\ UNCHANGED <<libVars, histVars, markVars, stopStreamingRef, confidenceState, confidence, buffer, linesLeft,
                   fullResponse, citations, receivedDoneEvent, blockVars, rafVars,
                   readerCancelled, nLines, updates, views, errors, frameUpdates>>

\* a faulty timeout callback, which does not raise the stop flag: C24 must tell it
\* from StreamTimeout
StreamTimeoutNoFlag ==
    /\ Suspended
    /\ timerPending
    /\ timerPending' = FALSE
    /\ IF ~stopStreamingRef
       THEN LET timeoutMsg == <<"The server did not respond in time. Please try again.">>
            IN  /\ readerCancelled' = TRUE
                /\ DeliverAll(<<[content |-> timeoutMsg, streaming |-> FALSE]>>)
                /\ errors' = Append(errors, timeoutMsg)
                /\ UNCHANGED stopStreamingRef
       ELSE UNCHANGED <<readerCancelled, updates, views, frameUpdates, errors, stopStreamingRef>>
    /\ UNCHANGED <<libVars, histVars, markVars, streamReaderRef, timeoutRef, confidenceState, pc, confidence, buffer,
                   linesLeft, fullResponse, citations, receivedDoneEvent, blockVars, rafVars,
                   nLines>>

\* the setTimeout callback
StreamTimeout ==
    /\ Suspended
    /\ timerPending
    /\ timerPending' = FALSE
    /\ IF ~stopStreamingRef
       THEN LET timeoutMsg == <<"The server did not respond in time. Please try again.">>
            IN  /\ readerCancelled' = TRUE
                /\ DeliverAll(<<[content |-> timeoutMsg, streaming |-> FALSE]>>)
                /\ errors' = Append(errors, timeoutMsg)
                /\ stopStreamingRef' = TRUE
       ELSE UNCHANGED <<readerCancelled, updates, views, frameUpdates, errors, stopStreamingRef>>
    /\ UNCHANGED <<libVars, histVars, markVars, streamReaderRef, timeoutRef, confidenceState, pc, confidence, buffer,
                   linesLeft, fullResponse, citations, receivedDoneEvent, blockVars, rafVars,
                   nLines>>

\* a faulty stopStreaming, which raises the flag and forgets reader.cancel(): C13 must
\* tell it from StopStreaming
StopStreamingNoCancel ==
    /\ Suspended
    /\ IF streamReaderRef
       THEN /\ stopStreamingRef' = TRUE
            /\ streamReaderRef' = FALSE
            /\ stopAt' = IF stopAt = NoMark THEN <<Len(updates)>> ELSE stopAt
       ELSE UNCHANGED <<stopStreamingRef, streamReaderRef, stopAt>>
    /\ requestedAt' = IF requestedAt = NoMark /\ pc \notin {"idle", "finished"}
                      THEN <<Len(updates), nLines - linesLeft>>
                      ELSE requestedAt
    /\ ClearTimeout
    /\ UNCHANGED <<libVars, histVars, malformedAt, scoresSeen, confidenceState, pc, confidence, buffer, linesLeft,
                   fullResponse, citations, receivedDoneEvent, blockVars, rafVars, nLines,
                   readerCancelled, updates, views, errors, frameUpdates>>

\* stopStreaming(): the user asks to stop.  Its await of reader.cancel() is followed
\* only by writes that the continuation of streamQuery repeats in its finally block
StopStreaming ==
    /\ Suspended
    /\ IF streamReaderRef
       THEN /\ stopStreamingRef' = TRUE
            /\ readerCancelled' = TRUE
            /\ streamReaderRef' = FALSE
            /\ stopAt' = IF stopAt = NoMark THEN <<Len(updates)>> ELSE stopAt
       ELSE UNCHANGED <<stopStreamingRef, readerCancelled, streamReaderRef, stopAt>>
    /\ requestedAt' = IF requestedAt = NoMark /\ pc \notin {"idle", "finished"}
                      THEN <<Len(updates), nLines - linesLeft>>
                      ELSE requestedAt
    /\ ClearTimeout
    /\ UNCHANGED <<libVars, histVars, malformedAt, scoresSeen, confidenceState, pc, confidence, buffer, linesLeft, fullResponse, citations,
                   receivedDoneEvent, blockVars, rafVars, nLines, updates, views, errors,
                   frameUpdates>>

(***************************************************************************)
(* The read loop                                                           *)
(***************************************************************************)
\* await reader.read() yields a chunk: it completes k lines and leaves a rest
ReadChunk ==
    /\ pc = "read"
    /\ ~readerCancelled
    /\ \E k \in 0..MaxChunkLines, rest \in {<<>>, <<"partial line">>} :
          /\ nLines + k <= MaxEvents
          /\ k = 0 => rest # <<>>
          /\ nLines' = nLines + k
          /\ linesLeft' = k
          /\ buffer' = rest
          /\ pc' = IF k = 0 THEN LoopTop(stopStreamingRef) ELSE "lines"
    \* clear the timeout on first data received
    /\ IF timeoutRef /\ fullResponse = <<>>
       THEN ClearTimeout
       ELSE UNCHANGED <<timeoutRef, timerPending>>
    /\ UNCHANGED <<libVars, histVars, markVars, streamReaderRef, stopStreamingRef, confidenceState, confidence, fullResponse,
                   citations, receivedDoneEvent, blockVars, rafVars, readerCancelled, updates, views,
                   errors, frameUpdates>>

\* await reader.read() yields done: the stream ended or the reader was cancelled
ReadDone ==
    /\ pc = "read"
    /\ AfterLoop
    /\ UNCHANGED <<libVars, histVars, markVars, confidenceState, confidence, buffer, linesLeft, fullResponse, citations,
                   receivedDoneEvent, blockVars, readerCancelled, nLines>>

\* await reader.read() rejects
ReadRejects ==
    /\ pc = "read"
    /\ ~readerCancelled
    /\ \E err \in ReadErrs : Catch(err, <<>>, <<>>)
    /\ UNCHANGED <<libVars, histVars, markVars, confidenceState, confidence, buffer, linesLeft, fullResponse, citations,
                   receivedDoneEvent, blockVars, rafVars, readerCancelled, nLines>>

\* if (stopStreamingRef.current) { await reader.cancel(); break } at the top of the loop
CancelResolved ==
    /\ pc = "cancel"
    /\ AfterLoop
    /\ UNCHANGED <<libVars, histVars, markVars, confidenceState, confidence, buffer, linesLeft, fullResponse, citations,
                   receivedDoneEvent, blockVars, readerCancelled, nLines>>

\* for (const line of lines): the line loop takes the next line
AtLine ==
    /\ pc = "lines"
    /\ linesLeft > 0
    /\ ~stopStreamingRef

\* the handler of one line is through: the next line, or back to the top of the loop
NextLine(stop) ==
    /\ linesLeft' = linesLeft - 1
    /\ pc' = IF linesLeft = 1 THEN LoopTop(stop) ELSE "lines"

\* if (stopStreamingRef.current) break
StopBreakGuard ==
    /\ pc = "lines"
    /\ linesLeft > 0
    /\ stopStreamingRef

StopBreak ==
    /\ StopBreakGuard
    /\ linesLeft' = 0
    /\ pc' = LoopTop(stopStreamingRef)
    /\ UNCHANGED <<libVars, histVars, markVars, hookVars, confidence, buffer, fullResponse, citations, receivedDoneEvent,
                   blockVars, rafVars, timerPending, readerCancelled, nLines, updates, views, errors,
                   frameUpdates>>

\* a line that does not start with 'data: '
OnOtherLine ==
    /\ AtLine
    /\ NextLine(stopStreamingRef)
    /\ UNCHANGED <<libVars, histVars, markVars, hookVars, confidence, buffer, fullResponse, citations, receivedDoneEvent,
                   blockVars, rafVars, timerPending, readerCancelled, nLines, updates, views, errors,
                   frameUpdates>>

\* a faulty line loop without the inner try/catch: the error of JSON.parse reaches
\* the catch block of streamQuery.  C17 must tell it from OnMalformed
OnMalformedFatal ==
    /\ AtLine
    /\ malformedAt' = <<Len(updates)>>
    /\ Catch([name |-> "SyntaxError", message |-> <<"Unexpected token">>], <<>>, <<>>)
    /\ linesLeft' = 0
    /\ UNCHANGED <<libVars, histVars, stopAt, requestedAt, scoresSeen, confidenceState, confidence, buffer, fullResponse,
                   citations, receivedDoneEvent, blockVars, rafVars, readerCancelled, nLines>>

\* JSON.parse throws: the error is caught and logged
OnMalformed ==
    /\ AtLine
    /\ malformedAt' = <<Len(updates)>>
    /\ NextLine(stopStreamingRef)
    /\ UNCHANGED <<libVars, histVars, stopAt, requestedAt, scoresSeen, hookVars, confidence, buffer, fullResponse, citations, receivedDoneEvent,
                   blockVars, rafVars, timerPending, readerCancelled, nLines, updates, views, errors,
                   frameUpdates>>

\* conversation_id, user_message_id (calls of optional callbacks), or a type that
\* no branch matches
OnMeta ==
    /\ AtLine
    /\ NextLine(stopStreamingRef)
    /\ UNCHANGED <<libVars, histVars, markVars, hookVars, confidence, buffer, fullResponse, citations, receivedDoneEvent,
                   blockVars, rafVars, timerPending, readerCancelled, nLines, updates, views, errors,
                   frameUpdates>>

OnStart ==
    /\ AtLine
    /\ DeliverAll(<<[content |-> <<"Retrieving relevant documents...">>, streaming |-> TRUE]>>)
    /\ NextLine(stopStreamingRef)
    /\ UNCHANGED <<libVars, histVars, markVars, hookVars, confidence, buffer, fullResponse, citations, receivedDoneEvent,
                   blockVars, rafVars, timerPending, readerCancelled, nLines, errors>>

OnProgress ==
    /\ AtLine
    /\ IF fullResponse = <<>>
       THEN DeliverAll(<<[content |-> <<"Processing...">>, streaming |-> TRUE]>>)
       ELSE UNCHANGED <<updates, views, frameUpdates>>
    /\ NextLine(stopStreamingRef)
    /\ UNCHANGED <<libVars, histVars, markVars, hookVars, confidence, buffer, fullResponse, citations, receivedDoneEvent,
                   blockVars, rafVars, timerPending, readerCancelled, nLines, errors>>

OnBlockStart(blockId, blockType) ==
    /\ AtLine
    /\ streamingBlocks' = MapSet(streamingBlocks, blockId, NewBlockState(blockId, blockType))
    /\ views' = Sever(views, blockId)
    /\ scheduleUpdate
    /\ openHistory' = MapSet(openHistory, blockId, NewHistory(blockId, blockType))
    /\ UNCHANGED <<libVars, closedHistory, endedIds, markVars>>
    /\ NextLine(stopStreamingRef)
    /\ UNCHANGED <<hookVars, confidence, buffer, fullResponse, citations, receivedDoneEvent,
                   completedBlocks, timerPending, readerCancelled, nLines, updates, errors,
                   frameUpdates>>

OnBlockDelta(blockId, path, value) ==
    /\ AtLine
    /\ LET \* auto-create the block if it doesn't exist
           blocks == IF MapHas(streamingBlocks, blockId)
                     THEN streamingBlocks
                     ELSE MapSet(streamingBlocks, blockId, NewBlockState(blockId, "text"))
       IN  streamingBlocks' =
               MapSet(blocks, blockId, applyBlockDelta(MapGet(blocks, blockId), path, value))
    \* arr.push(...) on an array that snapshots delivered earlier hold as well
    /\ views' = IF /\ MapHas(streamingBlocks, blockId)
                   /\ path \in ArrayPaths
                   /\ path \in DOMAIN MapGet(streamingBlocks, blockId).data
                THEN PushShared(views, blockId, path,
                                IF path = "rows" THEN SplitCells(value) ELSE value)
                ELSE views
    /\ scheduleUpdate
    /\ LET hist == IF MapHas(openHistory, blockId)
                   THEN openHistory
                   ELSE MapSet(openHistory, blockId, NewHistory(blockId, "text"))
           old == MapGet(hist, blockId)
       IN  openHistory' = MapSet(hist, blockId,
                              [old EXCEPT !.deltas = Append(old.deltas, <<path, value>>)])
    /\ UNCHANGED <<libVars, closedHistory, endedIds, markVars>>
    /\ NextLine(stopStreamingRef)
    /\ UNCHANGED <<hookVars, confidence, buffer, fullResponse, citations, receivedDoneEvent,
                   completedBlocks, timerPending, readerCancelled, nLines, updates, errors,
                   frameUpdates>>

\* a block_end handler that synthesizes an empty text block for an id that is not
\* open, as the pipeline invariant of the specification reads: C4 must tell it from
\* OnBlockEnd
OnBlockEndSynthesizing(blockId, partial) ==
    /\ AtLine
    /\ LET blocks == IF MapHas(streamingBlocks, blockId)
                     THEN streamingBlocks
                     ELSE MapSet(streamingBlocks, blockId, NewBlockState(blockId, "text"))
           blockState == [MapGet(blocks, blockId) EXCEPT
                              !.streaming = FALSE, !.partial = partial]
       IN  /\ completedBlocks' = Append(completedBlocks, stateToContentBlock(blockState))
           /\ streamingBlocks' = MapDelete(blocks, blockId)
           /\ scheduleUpdate
    /\ LET hist == IF MapHas(openHistory, blockId)
                   THEN openHistory
                   ELSE MapSet(openHistory, blockId, NewHistory(blockId, "text"))
       IN  /\ closedHistory' = Append(closedHistory,
                   Spread(MapGet(hist, blockId), [partial |-> partial]))
           /\ openHistory' = MapDelete(hist, blockId)
    /\ endedIds' = endedIds \cup {blockId}
    /\ views' = Sever(views, blockId)
    /\ NextLine(stopStreamingRef)
    /\ UNCHANGED <<libVars, markVars, hookVars, confidence, buffer, fullResponse, citations,
                   receivedDoneEvent, timerPending, readerCancelled, nLines, updates, errors,
                   frameUpdates>>

OnBlockEnd(blockId, partial) ==
    /\ AtLine
    /\ IF MapHas(streamingBlocks, blockId)
       THEN LET blockState == [MapGet(streamingBlocks, blockId) EXCEPT
                                   !.streaming = FALSE, !.partial = partial]
            IN  /\ completedBlocks' = Append(completedBlocks, stateToContentBlock(blockState))
                /\ streamingBlocks' = MapDelete(streamingBlocks, blockId)
                /\ scheduleUpdate
       ELSE UNCHANGED <<blockVars, rafVars>>
    /\ IF MapHas(openHistory, blockId)
       THEN /\ closedHistory' = Append(closedHistory,
                    Spread(MapGet(openHistory, blockId), [partial |-> partial]))
            /\ openHistory' = MapDelete(openHistory, blockId)
       ELSE UNCHANGED <<openHistory, closedHistory>>
    /\ endedIds' = endedIds \cup {blockId}
    /\ views' = Sever(views, blockId)
    /\ NextLine(stopStreamingRef)
    /\ UNCHANGED <<libVars, markVars, hookVars, confidence, buffer, fullResponse, citations,
                   receivedDoneEvent, timerPending, readerCancelled, nLines, updates, errors,
                   frameUpdates>>

OnResponse(text) ==
    /\ AtLine
    /\ fullResponse' = text
    /\ DeliverAll(<<[content |-> text, streaming |-> TRUE]>>)
    /\ NextLine(stopStreamingRef)
    /\ UNCHANGED <<libVars, histVars, markVars, hookVars, confidence, buffer, citations, receivedDoneEvent, blockVars,
                   rafVars, timerPending, readerCancelled, nLines, errors>>

\* data.data.map(...) of the citations branch
MapCitations(raw) ==
    [i \in 1..Len(raw) |->
        [citation_number |-> IF raw[i].citation_number = <<>> THEN i
                             ELSE raw[i].citation_number[1],
         content |-> raw[i].content,
         score |-> raw[i].score]]

OnCitations(raw) ==
    /\ AtLine
    /\ citations' = MapCitations(raw)
    /\ DeliverAll(<<[citations |-> MapCitations(raw), streaming |-> TRUE]>>)
    /\ NextLine(stopStreamingRef)
    /\ UNCHANGED <<libVars, histVars, markVars, hookVars, confidence, buffer, fullResponse, receivedDoneEvent, blockVars,
                   rafVars, timerPending, readerCancelled, nLines, errors>>

OnConfidenceUpdate(score) ==
    /\ AtLine
    /\ confidenceState' = score
    /\ scoresSeen' = Append(scoresSeen, [type |-> "confidence_update", score |-> <<score>>])
    /\ NextLine(stopStreamingRef)
    /\ UNCHANGED <<libVars, histVars, stopAt, malformedAt, requestedAt, streamReaderRef, stopStreamingRef, timeoutRef, confidence, buffer,
                   fullResponse, citations, receivedDoneEvent, blockVars, rafVars, timerPending,
                   readerCancelled, nLines, updates, views, errors, frameUpdates>>

\* a faulty done branch, which does not raise the stop flag: C28 must tell it from
\* OnDone
OnDoneNoFlag(score) ==
    /\ AtLine
    /\ receivedDoneEvent' = TRUE
    /\ cancelScheduledUpdate
    /\ ClearTimeout
    /\ LET finalBlocks == buildBlocksFromState(completedBlocks, streamingBlocks)
           finalContent == OrElse(blocksToTextFallback(finalBlocks),
                               OrElse(fullResponse, <<"No response received.">>))
           \* data.confidence_score ?? confidence
           finalConfidence == IF score # <<>> THEN score[1] ELSE confidence
       IN  /\ confidenceState' = finalConfidence
           /\ DeliverAll(<<WithBlocks([content |-> finalContent,
                                       citations |-> citations,
                                       streaming |-> FALSE,
                                       confidence |-> finalConfidence], finalBlocks)>>)
    /\ UNCHANGED stopStreamingRef
    /\ NextLine(stopStreamingRef)
    /\ scoresSeen' = Append(scoresSeen, [type |-> "done", score |-> score])
    /\ UNCHANGED <<libVars, histVars, stopAt, malformedAt, requestedAt, streamReaderRef, confidence,
                   buffer, fullResponse, citations, blockVars, readerCancelled, nLines, errors>>

OnDone(score) ==
    /\ AtLine
    /\ receivedDoneEvent' = TRUE
    /\ cancelScheduledUpdate
    /\ ClearTimeout
    /\ LET finalBlocks == buildBlocksFromState(completedBlocks, streamingBlocks)
           finalContent == OrElse(blocksToTextFallback(finalBlocks),
                               OrElse(fullResponse, <<"No response received.">>))
           \* data.confidence_score ?? confidence
           finalConfidence == IF score # <<>> THEN score[1] ELSE confidence
       IN  /\ confidenceState' = finalConfidence
           /\ DeliverAll(<<WithBlocks([content |-> finalContent,
                                       citations |-> citations,
                                       streaming |-> FALSE,
                                       confidence |-> finalConfidence], finalBlocks)>>)
    /\ stopStreamingRef' = TRUE
    /\ NextLine(TRUE)
    /\ scoresSeen' = Append(scoresSeen, [type |-> "done", score |-> score])
    /\ UNCHANGED <<libVars, histVars, stopAt, malformedAt, requestedAt, streamReaderRef, confidence,
                   buffer, fullResponse, citations, blockVars, readerCancelled, nLines, errors>>

OnError(text) ==
    /\ AtLine
    /\ cancelScheduledUpdate
    /\ LET errorMessage == OrElse(text, <<"Stream error occurred">>)
       IN  /\ DeliverAll(<<[content |-> OrElse(fullResponse, errorMessage),
                            streaming |-> FALSE]>>)
           /\ errors' = Append(errors, errorMessage)
    /\ stopStreamingRef' = TRUE
    \* break
    /\ linesLeft' = 0
    /\ pc' = LoopTop(TRUE)
    /\ UNCHANGED <<libVars, histVars, markVars, streamReaderRef, timeoutRef, confidenceState, confidence, buffer,
                   fullResponse, citations, receivedDoneEvent, blockVars, timerPending,
                   readerCancelled, nLines>>

Next ==
    \/ StreamQuery
    \/ FetchRejects
    \/ FetchNotOk
    \/ FetchNoBody
    \/ FetchOk
    \/ StreamTimeout
    \/ StopStreaming
    \/ AnimationFrame
    \/ ReadChunk
    \/ ReadDone
    \/ ReadRejects
    \/ CancelResolved
    \/ StopBreak
    \/ OnOtherLine
    \/ OnMalformed
    \/ OnMeta
    \/ OnStart
    \/ OnProgress
    \/ \E in \in StartInputs : OnBlockStart(in[1], in[2])
    \/ \E in \in DeltaInputs : OnBlockDelta(in[1], in[2], in[3])
    \/ \E in \in EndInputs : OnBlockEnd(in[1], in[2])
    \/ \E text \in ResponseTexts : OnResponse(text)
    \/ \E raw \in CitationPayloads : OnCitations(raw)
    \/ \E score \in UpdateScores : OnConfidenceUpdate(score)
    \/ \E score \in DoneScores : OnDone(score)
    \/ \E text \in ErrorTexts : OnError(text)

Spec == Init /\ [][Next]_vars

\* streamQuery is running synchronous code, or waits on a promise that is already
\* settled (the read of a cancelled reader, reader.cancel()): the engine runs it on
Running ==
    \/ pc = "lines"
    \/ pc = "cancel"
    \/ pc = "read" /\ readerCancelled

\* code that can run does run, and the browser does call the frame callbacks it holds
FairSpec ==
    /\ Spec
    /\ WF_vars(Running /\ Next)
    /\ WF_vars(AnimationFrame)

(***************************************************************************)
(* Properties                                                              *)
(***************************************************************************)
\* the paths whose deltas accumulate as text
TextPath(path) == path \notin ArrayPaths \cup {"headers"}

\* the values of the deltas on path, concatenated in arrival order
RECURSIVE ConcatDeltas(_, _)
ConcatDeltas(deltas, path) ==
    IF deltas = <<>> THEN <<>>
    ELSE (IF Head(deltas)[1] = path THEN Head(deltas)[2] ELSE <<>>)
             \o ConcatDeltas(Tail(deltas), path)

DeltaPathsOf(hist) == {hist.deltas[i][1] : i \in 1..Len(hist.deltas)}

\* data holds, at every text path of the history, the concatenation of its deltas
TextAccumulated(data, hist) ==
    \A path \in DeltaPathsOf(hist) :
        TextPath(path) =>
            /\ path \in DOMAIN data
            /\ data[path] = ConcatDeltas(hist.deltas, path)

\* C1: at every text-accumulating path of every open block, and of every ContentBlock
\* produced at block_end, the value is the concatenation of the path's delta values
\* in arrival order
C1_TextRoundTrip ==
    /\ Len(openHistory) = Len(streamingBlocks)
    /\ Len(closedHistory) = Len(completedBlocks)
    /\ \A i \in 1..Len(streamingBlocks) :
          TextAccumulated(streamingBlocks[i].data, openHistory[i])
    /\ \A j \in 1..Len(completedBlocks) :
          TextAccumulated(completedBlocks[j].data, closedHistory[j])

\* a completed block that got two different content deltas
C1_Witness ==
    \E j \in 1..Len(completedBlocks) :
        /\ closedHistory[j].deltas = <<<<"content", ValueA>>, <<"content", ValueB>>>>
        /\ completedBlocks[j].data.content = <<"a", " ", "b", "|", "c">>

\* C2 (as claimed): a block_end for an open id removes the id from the open set and
\* appends exactly one ContentBlock of the declared type whose data is the id plus
\* the accumulated data; the other open blocks and the earlier completed blocks stay
C2_BlockEndOfOpen ==
    [][\A in \in EndInputs :
          (MapHas(streamingBlocks, in[1]) /\ OnBlockEnd(in[1], in[2])) =>
              LET state == MapGet(streamingBlocks, in[1])
                  block == completedBlocks'[Len(completedBlocks')]
              IN  /\ ~MapHas(streamingBlocks', in[1])
                  /\ Len(completedBlocks') = Len(completedBlocks) + 1
                  /\ SubSeq(completedBlocks', 1, Len(completedBlocks)) = completedBlocks
                  /\ block.type = state.block_type
                  /\ DOMAIN block.data = (DOMAIN state.data) \cup {"id"}
                  /\ block.data.id = in[1]
                  /\ \A path \in DOMAIN state.data : block.data[path] = state.data[path]
                  /\ Len(streamingBlocks') = Len(streamingBlocks) - 1
                  /\ \A i \in 1..Len(streamingBlocks) :
                        streamingBlocks[i].block_id # in[1] =>
                            \E k \in 1..Len(streamingBlocks') :
                                streamingBlocks'[k] = streamingBlocks[i]
      ]_vars

\* what a first delta of value leaves at path
FirstDeltaValue(path, value) ==
    IF path = "rows" THEN <<SplitCells(value)>>
    ELSE IF path \in ArrayPaths THEN <<value>>
    ELSE IF path = "headers" THEN SplitCells(value)
    ELSE value

\* C3 (as claimed): a block_delta for an id with no open block is not dropped: the
\* snapshot built next holds a text block with that id that carries the delta's value
C3_DeltaOfUnopened ==
    [][\A in \in DeltaInputs :
          (~MapHas(streamingBlocks, in[1]) /\ OnBlockDelta(in[1], in[2], in[3])) =>
              LET snapshot == buildBlocksFromState(completedBlocks', streamingBlocks')
              IN  \E k \in 1..Len(snapshot) :
                      /\ snapshot[k].type = "text"
                      /\ snapshot[k].data.id = in[1]
                      /\ in[2] \in DOMAIN snapshot[k].data
                      /\ snapshot[k].data[in[2]] = FirstDeltaValue(in[2], in[3])
      ]_vars

\* the ids that have, or have had, a block in the assembled output
AssembledIds ==
    {openHistory[i].block_id : i \in 1..Len(openHistory)}
        \cup {closedHistory[j].block_id : j \in 1..Len(closedHistory)}

\* C4 (as claimed): every id named by a block_end has a block in the assembled output
C4_EveryEndHasBlock == endedIds \subseteq AssembledIds

\* C4 (amended): a block_end for an open id moves that block to the completed list;
\* a block_end for an id that is not open synthesizes nothing: the open and the
\* completed blocks stay as they are and no frame update is scheduled
C4_EndOfUnopenedIgnored ==
    [][\A in \in EndInputs :
          OnBlockEnd(in[1], in[2]) =>
              IF MapHas(streamingBlocks, in[1])
              THEN /\ ~MapHas(streamingBlocks', in[1])
                   /\ Len(completedBlocks') = Len(completedBlocks) + 1
                   /\ closedHistory'[Len(closedHistory')].block_id = in[1]
              ELSE UNCHANGED <<blockVars, rafVars, updates>>
      ]_vars

\* a block_end has named an id that never had a block
C4_Witness == \E id \in endedIds : id \notin AssembledIds

\* the blocks that the updates delivered so far have carried
DeliveredBlocks ==
    UNION {{updates[i].blocks[k] : k \in 1..Len(updates[i].blocks)} :
              i \in {n \in 1..Len(updates) : "blocks" \in DOMAIN updates[n]}}

\* C5 (as claimed): a block declared with a type the client does not know appears in
\* every snapshot as a block of type 'unknown' that keeps the declared type under
\* data.raw.original_type
C5_UnknownWrapped ==
    /\ \A block \in DeliveredBlocks : block.type \in KnownTypes
    /\ LET snapshot == buildBlocksFromState(completedBlocks, streamingBlocks)
           hist == closedHistory \o openHistory
       IN  \A i \in 1..Len(snapshot) :
               hist[i].declared \notin KnownTypes =>
                   /\ snapshot[i].type = "unknown"
                   /\ "raw" \in DOMAIN snapshot[i].data
                   /\ snapshot[i].data.raw.original_type = hist[i].declared

\* the streaming=false updates delivered so far
TerminalUpdates == {updates[i] : i \in {n \in 1..Len(updates) : ~updates[n].streaming}}

\* msg carries a block of the type and with the data of state
CarriesBlock(msg, state) ==
    /\ "blocks" \in DOMAIN msg
    /\ \E k \in 1..Len(msg.blocks) :
          /\ msg.blocks[k].type = state.block_type
          /\ \A path \in DOMAIN state.data :
                /\ path \in DOMAIN msg.blocks[k].data
                /\ msg.blocks[k].data[path] = state.data[path]

\* C6 (as claimed): when the invocation has terminated, every block that was still
\* open is in the blocks of a terminal update
C6_NoBlockInLimbo ==
    pc = "finished" =>
        \A i \in 1..Len(streamingBlocks) :
            \E msg \in TerminalUpdates : CarriesBlock(msg, streamingBlocks[i])

MarkedPartial(block) == "partial" \in DOMAIN block.data /\ block.data.partial = TRUE

\* C7 (as claimed): a block closed by a block_end with partial=true, and a block still
\* open when a terminal update delivers it, is delivered marked partial=true
C7_PartialMarked ==
    /\ \A j \in 1..Len(completedBlocks) :
          closedHistory[j].partial => MarkedPartial(completedBlocks[j])
    /\ pc = "finished" =>
          \A msg \in TerminalUpdates :
              "blocks" \in DOMAIN msg =>
                  \A k \in 1..Len(msg.blocks) :
                      k > Len(completedBlocks) => MarkedPartial(msg.blocks[k])

\* C8 (as claimed): between two frame boundaries at most one update with
\* streaming=true is delivered
C8_OneUpdatePerFrame == frameUpdates <= 1

\* the blocks of the latest update that carried blocks
RECURSIVE LastBlocks(_)
LastBlocks(msgs) ==
    IF msgs = <<>> THEN <<>>
    ELSE IF "blocks" \in DOMAIN msgs[Len(msgs)] THEN msgs[Len(msgs)].blocks
    ELSE LastBlocks(SubSeq(msgs, 1, Len(msgs) - 1))

\* some block event has not reached the collaborator yet
Undelivered == LastBlocks(updates) # buildBlocksFromState(completedBlocks, streamingBlocks)

\* how many steps streamQuery can still run before it has to wait or is through
RunLength ==
    IF pc = "lines" THEN linesLeft + 1
    ELSE IF Running THEN 1
    ELSE 0

\* C9: the snapshot a frame callback delivers is the state of the blocks when it runs,
\* and no block event is dropped: while one has not been delivered, a frame callback
\* is registered (and the frame that runs it leaves nothing undelivered) or streamQuery
\* is running on, at a step it can take and for a number of steps that a user stop,
\* the timer or a frame do not add to, to a state where one is registered or the
\* terminal update has carried the blocks
C9_NoUpdateDropped ==
    /\ [][(Len(updates') > Len(updates) /\ updates'[Len(updates')].streaming
              /\ "blocks" \in DOMAIN updates'[Len(updates')]) =>
            updates'[Len(updates')].blocks =
                buildBlocksFromState(completedBlocks, streamingBlocks)]_vars
    /\ [](Undelivered => (rafQueue # {} \/ Running))
    /\ [][(AnimationFrame /\ rafQueue # {}) => ~Undelivered']_vars
    /\ [](Running => (AtLine \/ StopBreakGuard \/ pc \in {"cancel", "read"}))
    /\ [][Running => IF StopStreaming \/ StreamTimeout \/ AnimationFrame
                      THEN RunLength' = RunLength
                      ELSE RunLength' < RunLength]_vars

\* two block events were batched into one frame update that shows both
C9_Witness ==
    /\ Len(closedHistory) + Len(openHistory) >= 2
    /\ Len(updates) = 1
    /\ updates[1].streaming
    /\ "blocks" \in DOMAIN updates[1]
    /\ Len(updates[1].blocks) = 2
    /\ ~Undelivered

\* C10 (as claimed): once an update with streaming=false has been delivered, no update
\* with streaming=true follows it
C10_NoStaleUpdate ==
    \A i, j \in 1..Len(updates) :
        (i < j /\ ~updates[i].streaming) => ~updates[j].streaming

\* the number of streaming=false updates delivered so far
FinalCount == Cardinality({i \in 1..Len(updates) : ~updates[i].streaming})

\* C11 (as claimed): an invocation makes at most one onMessageUpdate call with
\* streaming=false, whatever path ends it
C11_OneFinal == FinalCount <= 1

\* C12 (as claimed): an invocation that has delivered an update with streaming=true and
\* has ended (stream end, failure, timeout or stop) has delivered an update with
\* streaming=false
C12_EndsWithFinal ==
    (pc = "finished" /\ StreamingCount(updates) > 0) => FinalCount > 0

\* C13: a stopStreaming call that finds a reader cancels the read; after it no update
\* with streaming=true is delivered, and at most one update at all
C13_StopIsFinal ==
    /\ [][(StopStreaming /\ streamReaderRef) => readerCancelled']_vars
    /\ [](stopAt # NoMark =>
            /\ Len(updates) <= stopAt[1] + 1
            /\ \A i \in (stopAt[1] + 1)..Len(updates) : ~updates[i].streaming)

\* a stream that had shown two updates was stopped, and got its one final update
C13_Witness ==
    /\ stopAt = <<2>>
    /\ Len(updates) = 3
    /\ ~updates[3].streaming
    /\ pc = "finished"

\* C14 (as claimed): whenever the invocation waits for data (before the first chunk or
\* after some chunk) a timeout is armed that will cancel the read
C14_SilenceIsTimed == (pc = "read" /\ ~readerCancelled) => timerPending

\* the content accumulated so far: the text of the blocks, else the response text
Accumulated ==
    OrElse(blocksToTextFallback(buildBlocksFromState(completedBlocks, streamingBlocks)),
           fullResponse)

\* C15 (as claimed): when an invocation has ended with a failure reported and content
\* had been accumulated, the last update delivered carries that content
C15_ContentPreserved ==
    (pc = "finished" /\ errors # <<>> /\ Accumulated # <<>>) =>
        /\ "content" \in DOMAIN updates[Len(updates)]
        /\ updates[Len(updates)].content = Accumulated

\* C16 (as claimed): the blocks an update handed over read now as they read when they
\* were delivered
C16_SnapshotsImmutable ==
    \A i \in 1..Len(updates) :
        "blocks" \in DOMAIN updates[i] =>
            [k \in 1..Len(views[i]) |-> views[i][k].block] = updates[i].blocks

\* C17: a 'data:' line that does not decode, or decodes to a type no branch handles,
\* changes neither the blocks, the citations, the response text nor the pending frame
\* batch, delivers no update and reports no error, and the line loop goes on with the
\* next line of the chunk (or with the next read)
C17_MalformedSkipped ==
    [][(OnMalformed \/ OnMeta) =>
          /\ UNCHANGED <<blockVars, citations, fullResponse, rafVars, updates, errors,
                         stopStreamingRef, receivedDoneEvent>>
          /\ IF linesLeft > 1
             THEN pc' = "lines" /\ linesLeft' = linesLeft - 1
             ELSE pc' = "read"
      ]_vars

\* an undecodable line came first, and the start event after it was still handled
C17_Witness ==
    /\ malformedAt = <<0>>
    /\ Len(updates) >= 1
    /\ updates[1] = [content |-> <<"Retrieving relevant documents...">>, streaming |-> TRUE]

(***************************************************************************)
(* SSEParser (utils/sse_parser.ts)                                         *)
(***************************************************************************)
MaxSSELines == 4

\* the lines handed to parseLine: named and nameless 'event:' lines, 'data:' lines
\* with a JSON payload, with an undecodable one and with none, blank lines, a
\* comment, an 'id:' field and a data line that does not start at column 0
SSELines == {
    <<"event:", " ", "block">>,
    <<"event:", "delta", " ">>,
    <<"event:">>,
    <<"data:", " ", "{\"n\":1}">>,
    <<"data:", "{\"n\":1">>,
    <<"data:", " ">>,
    <<>>,
    <<" ">>,
    <<":", "keep-alive">>,
    <<" ", "data:", "{\"n\":1}">> }

\* line.startsWith(prefix)
startsWith(line, prefix) == line # <<>> /\ Head(line) = prefix

\* line.replace(/^data:\s*/g, '') and line.replace(/^event:\s*/g, ''), for a line
\* that starts with the prefix
replacePrefix(line) == TrimStart(Tail(line))

\* the texts JSON.parse accepts, and what it returns for them
JSONTexts == {<<"{\"n\":1}">>}
JSONParse(payload) == [n |-> 1]

MaxLegacyCalls == 1

\* parseSSELine without the test of how the line starts: white space before 'data:'
\* is skipped
parseSSELineIndented(line) ==
    LET text == TrimStart(line) IN
    IF ~startsWith(text, "data:") THEN null
    ELSE LET payload == Trim(replacePrefix(text)) IN
         IF payload = <<>> THEN null
         ELSE IF payload \in JSONTexts THEN <<JSONParse(payload)>> ELSE null

\* parseSSELine(line): null, or the decoded data
parseSSELine(line) ==
    IF ~startsWith(line, "data:") THEN null
    ELSE LET payload == Trim(replacePrefix(line)) IN
         IF payload = <<>> THEN null
         ELSE IF payload \in JSONTexts THEN <<JSONParse(payload)>> ELSE null

\* a call of the legacy function
CallParseSSELine(line) ==
    /\ Len(legacyCalls) < MaxLegacyCalls
    /\ legacyCalls' = Append(legacyCalls, [line |-> line, result |-> parseSSELine(line)])
    /\ UNCHANGED <<streamVars, currentEventName, sseLines, sseResults, coalescerVars, ispVars,
                   scorerVars, framingVars, overlapVars>>

\* parseLine that hands an undecodable payload over as it stands
parseLineLenient(line) ==
    /\ Len(sseLines) < MaxSSELines
    /\ sseLines' = Append(sseLines, line)
    /\ IF startsWith(line, "event:")
       THEN /\ currentEventName' = <<Trim(replacePrefix(line))>>
            /\ sseResults' = Append(sseResults, null)
       ELSE IF startsWith(line, "data:")
       THEN LET payload == Trim(replacePrefix(line)) IN
            /\ currentEventName' = null
            /\ sseResults' = Append(sseResults,
                  IF payload # <<>>
                  THEN <<[eventName |-> IF currentEventName # null /\ currentEventName[1] # <<>>
                                        THEN currentEventName ELSE undefined,
                          data |-> IF payload \in JSONTexts THEN JSONParse(payload) ELSE payload]>>
                  ELSE null)
       ELSE /\ currentEventName' = IF Trim(line) = <<>> THEN null ELSE currentEventName
            /\ sseResults' = Append(sseResults, null)
    /\ UNCHANGED <<streamVars, legacyCalls, coalescerVars, ispVars, scorerVars, framingVars, overlapVars>>

\* parseLine without the reset of the name on an empty line
parseLineKeepingName(line) ==
    /\ Len(sseLines) < MaxSSELines
    /\ sseLines' = Append(sseLines, line)
    /\ IF startsWith(line, "event:")
       THEN /\ currentEventName' = <<Trim(replacePrefix(line))>>
            /\ sseResults' = Append(sseResults, null)
       ELSE IF startsWith(line, "data:")
       THEN LET payload == Trim(replacePrefix(line)) IN
            /\ currentEventName' = null
            /\ sseResults' = Append(sseResults,
                  IF payload # <<>> /\ payload \in JSONTexts
                  THEN <<[eventName |-> IF currentEventName # null /\ currentEventName[1] # <<>>
                                        THEN currentEventName ELSE undefined,
                          data |-> JSONParse(payload)]>>
                  ELSE null)
       ELSE /\ currentEventName' = currentEventName
            /\ sseResults' = Append(sseResults, null)
    /\ UNCHANGED <<streamVars, legacyCalls, coalescerVars, ispVars, scorerVars, framingVars, overlapVars>>

\* SSEParser.parseLine(line)
parseLine(line) ==
    /\ Len(sseLines) < MaxSSELines
    /\ sseLines' = Append(sseLines, line)
    /\ IF startsWith(line, "event:")
       THEN \* return null: wait for the data line
            /\ currentEventName' = <<Trim(replacePrefix(line))>>
            /\ sseResults' = Append(sseResults, null)
       ELSE IF startsWith(line, "data:")
       THEN LET payload == Trim(replacePrefix(line)) IN
            IF payload = <<>>
            THEN /\ currentEventName' = null
                 /\ sseResults' = Append(sseResults, null)
            ELSE IF payload \in JSONTexts
            THEN \* eventName: this.currentEventName || undefined
                 /\ sseResults' = Append(sseResults,
                       <<[eventName |-> IF currentEventName # null /\ currentEventName[1] # <<>>
                                        THEN currentEventName ELSE undefined,
                          data |-> JSONParse(payload)]>>)
                 /\ currentEventName' = null
            ELSE \* catch
                 /\ currentEventName' = null
                 /\ sseResults' = Append(sseResults, null)
       ELSE \* if (!line.trim()) this.currentEventName = null
            /\ currentEventName' = IF Trim(line) = <<>> THEN null ELSE currentEventName
            /\ sseResults' = Append(sseResults, null)
    /\ UNCHANGED <<streamVars, legacyCalls, coalescerVars, ispVars, scorerVars, framingVars, overlapVars>>

SSENext ==
    \/ \E line \in SSELines : parseLine(line)
    \/ \E line \in SSELines : CallParseSSELine(line)

\* a parser, constructed, is handed lines
SSESpec == Init /\ [][SSENext]_vars

\* the calls whose line was an 'event:' line, before call i
EventCallsBefore(i) == {j \in 1..(i - 1) : startsWith(sseLines[j], "event:")}

\* the latest of them
LastEventCall(i) == CHOOSE j \in EventCallsBefore(i) : \A k \in EventCallsBefore(i) : k <= j

\* the name an 'event:' line gives: what follows the prefix, without the white space
\* around it
NameGiven(line) == Trim(replacePrefix(line))

\* a 'data:' line or a blank line was handed over between the calls j and i
ResetBetween(j, i) ==
    \E k \in (j + 1)..(i - 1) :
        startsWith(sseLines[k], "data:") \/ Trim(sseLines[k]) = <<>>

\* the calls that returned a result
ResultCalls == {i \in 1..Len(sseResults) : sseResults[i] # null}

\* no two results carry the name of one and the same 'event:' line
OneResultPerName ==
    \A i, k \in ResultCalls :
        (/\ i < k
         /\ sseResults[i][1].eventName # undefined
         /\ sseResults[k][1].eventName # undefined) =>
            LastEventCall(i) # LastEventCall(k)

\* C18 (as claimed): a result carries the name the latest 'event:' line gave exactly
\* when no 'data:' line and no blank line came since that line, and no name otherwise
C18_NameAsStated ==
    /\ \A i \in ResultCalls :
         LET eventName == sseResults[i][1].eventName IN
         IF EventCallsBefore(i) = {}
         THEN eventName = undefined
         ELSE LET j == LastEventCall(i) IN
              /\ (eventName = <<NameGiven(sseLines[j])>>) <=> ~ResetBetween(j, i)
              /\ ResetBetween(j, i) => eventName = undefined
    /\ OneResultPerName

\* C18 (amended): a result carries the name the latest 'event:' line gave exactly when
\* that name is not empty and no 'data:' line and no blank line came since that line,
\* and no name otherwise; one 'event:' line names at most one result
C18_NameAttached ==
    /\ \A i \in ResultCalls :
         LET eventName == sseResults[i][1].eventName IN
         IF EventCallsBefore(i) = {}
         THEN eventName = undefined
         ELSE LET j == LastEventCall(i) IN
              IF ~ResetBetween(j, i) /\ NameGiven(sseLines[j]) # <<>>
              THEN eventName = <<NameGiven(sseLines[j])>>
              ELSE eventName = undefined
    /\ OneResultPerName

\* a named result, then a name that a blank line took back before its data line
C18_Witness ==
    /\ Len(sseResults) = 4
    /\ sseLines[1] = <<"event:", " ", "block">>
    /\ sseLines[2] = <<>>
    /\ startsWith(sseLines[3], "event:") /\ NameGiven(sseLines[3]) = <<"delta">>
    /\ sseResults[4] # null
    /\ sseResults[4][1].eventName = <<<<"delta">>>>

(***************************************************************************)
(* AdaptiveCoalescer and IncrementalStructuredParser.  Their code is not   *)
(* part of the sources at hand (examples/coalescing/adaptive_coalescer.py, *)
(* examples/streaming/incremental_parser.py): both follow the design       *)
(* document, sections 4.1 and 4.2.  Times are in milliseconds, a text is   *)
(* the sequence of its characters.                                         *)
(***************************************************************************)
MaxCoalescerCalls == 3
MaxParserCalls == 3

BurstEnd == 800
FlowEnd == 3000
BurstMaxChars == 20
BurstMaxLatency == 50
FlowMaxChars == 120
FlowMaxLatency == 200
ReadMaxChars == 300
ReadMaxLatency == 400

\* the phase of a block of the given age
Phase(age) == IF age < BurstEnd THEN "burst" ELSE IF age < FlowEnd THEN "flow" ELSE "read"

MaxChars(phase) ==
    IF phase = "burst" THEN BurstMaxChars
    ELSE IF phase = "flow" THEN FlowMaxChars ELSE ReadMaxChars

MaxLatency(phase) ==
    IF phase = "burst" THEN BurstMaxLatency
    ELSE IF phase = "flow" THEN FlowMaxLatency ELSE ReadMaxLatency

SentenceDetection(phase) == phase # "burst"

SentenceEnds == {".", "!", "?", "\n"}

\* '.', '!', '?' or a newline, followed by white space
SentenceBoundary(buf) ==
    \E i \in 1..(Len(buf) - 1) : buf[i] \in SentenceEnds /\ buf[i + 1] \in Whitespace

\* the tokens pushed: a short one, one that ends a sentence, one of 20 characters
Tokens == { <<"H", "e", "l">>, <<"l", "o", ".", " ">>, [i \in 1..20 |-> "x"] }

\* the time between two calls
Delays == {10, 60, 1000}

\* flush() that hands the buffer over and keeps it
CoalescerFlushKeeping(now) ==
    /\ Len(coCalls) < MaxCoalescerCalls
    /\ now >= clock
    /\ clock' = now
    /\ coCalls' = Append(coCalls,
          [op |-> "flush", at |-> now,
           out |-> IF coalescer.buffer # <<>> THEN <<coalescer.buffer>> ELSE <<>>,
           arrived |-> arrivals,
           cap |-> MaxLatency(Phase(now - coalescer.block_start_time))])
    /\ UNCHANGED <<coalescer, arrivals>>
    /\ UNCHANGED <<streamVars, parserVars, ispVars, scorerVars, framingVars, overlapVars>>

\* AdaptiveCoalescer.push(token), called when the clock reads `now`
CoalescerPush(token, now) ==
    /\ Len(coCalls) < MaxCoalescerCalls
    /\ now >= clock
    /\ clock' = now
    /\ LET buf == coalescer.buffer \o token
           phase == Phase(now - coalescer.block_start_time)
           emit == \/ Len(buf) >= MaxChars(phase)
                   \/ now - coalescer.last_emit_time >= MaxLatency(phase)
                   \/ SentenceDetection(phase) /\ SentenceBoundary(buf)
       IN /\ coalescer' = [coalescer EXCEPT
                 !.buffer = IF emit THEN <<>> ELSE buf,
                 !.last_emit_time = IF emit THEN now ELSE @,
                 !.tokens_received = @ + 1,
                 !.deltas_emitted = IF emit THEN @ + 1 ELSE @,
                 !.emitted_chars = IF emit THEN @ + Len(buf) ELSE @]
          /\ arrivals' = IF emit THEN <<>> ELSE Append(arrivals, now)
          /\ coCalls' = Append(coCalls,
                [op |-> "push", at |-> now,
                 out |-> IF emit THEN <<buf>> ELSE <<>>,
                 arrived |-> IF emit THEN Append(arrivals, now) ELSE <<>>,
                 cap |-> MaxLatency(phase)])
    /\ UNCHANGED <<streamVars, parserVars, ispVars, scorerVars, framingVars, overlapVars>>

\* AdaptiveCoalescer.flush(), called when the clock reads `now`
CoalescerFlush(now) ==
    /\ Len(coCalls) < MaxCoalescerCalls
    /\ now >= clock
    /\ clock' = now
    /\ LET buf == coalescer.buffer
           emit == buf # <<>>
       IN /\ coalescer' = [coalescer EXCEPT
                 !.buffer = <<>>,
                 !.last_emit_time = IF emit THEN now ELSE @,
                 !.deltas_emitted = IF emit THEN @ + 1 ELSE @,
                 !.emitted_chars = IF emit THEN @ + Len(buf) ELSE @]
          /\ arrivals' = <<>>
          /\ coCalls' = Append(coCalls,
                [op |-> "flush", at |-> now,
                 out |-> IF emit THEN <<buf>> ELSE <<>>,
                 arrived |-> arrivals,
                 cap |-> MaxLatency(Phase(now - coalescer.block_start_time))])
    /\ UNCHANGED <<streamVars, parserVars, ispVars, scorerVars, framingVars, overlapVars>>

\* a run of 6 KB of text without a brace, as one piece of a text
Run6K == "<6 KB of text>"
Run6KLength == 6144

\* the chunks pushed to the parser: a whole unit, the head of one, the end of one,
\* text that is no unit, a code fence, 6 KB of text that is no unit
ParserChunks == { <<"{", "a", "}">>, <<"{", "a">>, <<"}">>, <<"x">>, <<Fence>>, <<Run6K>> }

\* the length of a text in characters
RECURSIVE TextLength(_)
TextLength(s) ==
    IF s = <<>> THEN 0
    ELSE (IF Head(s) = Run6K THEN Run6KLength ELSE 1) + TextLength(Tail(s))

SalvageThreshold == 10240

\* IncrementalStructuredParser.needsSalvage()
needsSalvage == TextLength(ispBuffer) > SalvageThreshold

\* the text without the code fences around and between the payloads
StripFences(s) == SelectSeq(s, LAMBDA c : c # Fence)

\* the length of the unit at the head of s (a span of balanced braces), 0 if there is
\* no complete one; depth counts the braces open at position i
RECURSIVE UnitEnd(_, _, _)
UnitEnd(s, i, depth) ==
    IF i > Len(s) THEN 0
    ELSE IF s[i] = "{" THEN UnitEnd(s, i + 1, depth + 1)
    ELSE IF s[i] = "}" THEN (IF depth = 1 THEN i ELSE UnitEnd(s, i + 1, depth - 1))
    ELSE UnitEnd(s, i + 1, depth)

\* the decode pass: the events of the complete units at the head of the buffer, and
\* what stays in the buffer
RECURSIVE DecodePass(_, _)
DecodePass(s, events) ==
    LET n == IF s # <<>> /\ Head(s) = "{" THEN UnitEnd(s, 1, 0) ELSE 0 IN
    IF n = 0 THEN [events |-> events, rest |-> s]
    ELSE DecodePass(SubSeq(s, n + 1, Len(s)),
                    Append(events, [event |-> "decoded", unit |-> SubSeq(s, 1, n)]))

\* salvage semantics: the buffer as one text block, marked partial
SalvageEvents(text) ==
    << [event |-> "block_start", block_type |-> "text"],
       [event |-> "block_delta", value |-> text],
       [event |-> "block_end", partial |-> TRUE] >>

\* IncrementalStructuredParser.push(chunk)
ParserPush(chunk) ==
    /\ Len(ispCalls) < MaxParserCalls
    /\ LET pass == DecodePass(StripFences(ispBuffer \o chunk), <<>>) IN
       /\ ispBuffer' = pass.rest
       /\ ispCalls' = Append(ispCalls, [op |-> "push", out |-> pass.events])
    /\ UNCHANGED <<streamVars, parserVars, coalescerVars, scorerVars, framingVars, overlapVars>>

\* IncrementalStructuredParser.flush()
ParserFlush ==
    /\ Len(ispCalls) < MaxParserCalls
    /\ LET pass == DecodePass(StripFences(ispBuffer), <<>>) IN
       /\ ispBuffer' = <<>>
       /\ ispCalls' = Append(ispCalls,
             [op |-> "flush",
              out |-> IF pass.rest # <<>>
                      THEN pass.events \o SalvageEvents(pass.rest)
                      ELSE pass.events])
    /\ UNCHANGED <<streamVars, parserVars, coalescerVars, scorerVars, framingVars, overlapVars>>

\* salvage() that emits what fits under the threshold and drops the rest
ParserSalvageCapped ==
    /\ Len(ispCalls) < MaxParserCalls
    /\ ispBuffer' = <<>>
    /\ ispCalls' = Append(ispCalls,
          [op |-> "salvage",
           out |-> SalvageEvents(IF needsSalvage THEN SubSeq(ispBuffer, 1, 1) ELSE ispBuffer)])
    /\ UNCHANGED <<streamVars, parserVars, coalescerVars, scorerVars, framingVars, overlapVars>>

\* IncrementalStructuredParser.salvage()
ParserSalvage ==
    /\ Len(ispCalls) < MaxParserCalls
    /\ ispBuffer' = <<>>
    /\ ispCalls' = Append(ispCalls, [op |-> "salvage", out |-> SalvageEvents(ispBuffer)])
    /\ UNCHANGED <<streamVars, parserVars, coalescerVars, scorerVars, framingVars, overlapVars>>

StagesNext ==
    \/ \E token \in Tokens, d \in Delays : CoalescerPush(token, clock + d)
    \/ \E d \in Delays : CoalescerFlush(clock + d)
    \/ \E chunk \in ParserChunks : ParserPush(chunk)
    \/ ParserFlush
    \/ ParserSalvage

\* a coalescer and a parser, constructed, are called in any order
StagesSpec == Init /\ [][StagesNext]_vars

\* C19 (as claimed): no token of an emitted chunk has waited in the buffer longer than
\* the latency cap of the phase that is active when the chunk is emitted
C19_LatencyBound ==
    \A i \in 1..Len(coCalls) :
        coCalls[i].out # <<>> =>
            \A k \in 1..Len(coCalls[i].arrived) :
                coCalls[i].at - coCalls[i].arrived[k] <= coCalls[i].cap

\* C20: a flush that follows a flush, with no push in between, returns nothing, on the
\* coalescer and on the parser
C20_FlushIdempotent ==
    /\ \A i \in 2..Len(coCalls) :
         (coCalls[i].op = "flush" /\ coCalls[i - 1].op = "flush") => coCalls[i].out = <<>>
    /\ \A i \in 2..Len(ispCalls) :
         (ispCalls[i].op = "flush" /\ ispCalls[i - 1].op = "flush") => ispCalls[i].out = <<>>

\* on both, a push left text in the buffer, the first flush returned it and the second
\* flush returned nothing
C20_Witness ==
    /\ Len(coCalls) = 3
    /\ coCalls[1].op = "push" /\ coCalls[1].out = <<>>
    /\ coCalls[2].op = "flush" /\ coCalls[2].out = << <<"H", "e", "l">> >>
    /\ coCalls[3].op = "flush" /\ coCalls[3].out = <<>>
    /\ Len(ispCalls) = 3
    /\ ispCalls[1].op = "push" /\ ispCalls[1].out = <<>>
    /\ ispCalls[2].op = "flush" /\ ispCalls[2].out = SalvageEvents(<<"{", "a">>)
    /\ ispCalls[3].op = "flush" /\ ispCalls[3].out = <<>>

\* the events of one text block, marked partial, that carries the given text
IsTextBlockOf(events, text) ==
    /\ Len(events) = 3
    /\ events[1].event = "block_start" /\ events[1].block_type = "text"
    /\ events[2].event = "block_delta" /\ events[2].value = text
    /\ events[3].event = "block_end" /\ events[3].partial = TRUE

\* C21: a buffer longer than the threshold makes needsSalvage() true, and salvage()
\* (on such a buffer as on any other) returns exactly one text block, marked partial,
\* whose text is the whole buffer, and leaves the buffer empty
C21_SalvageKeepsAll ==
    /\ [](TextLength(ispBuffer) > SalvageThreshold => needsSalvage)
    /\ [][ParserSalvage =>
            /\ IsTextBlockOf(ispCalls'[Len(ispCalls')].out, ispBuffer)
            /\ ispBuffer' = <<>>
         ]_vars

\* 12 KB of text without a unit were pushed, and salvage() returned them
C21_Witness ==
    /\ Len(ispCalls) = 3
    /\ ispCalls[3].op = "salvage"
    /\ ispCalls[3].out[2].value = <<Run6K, Run6K>>
    /\ ispBuffer = <<>>

(***************************************************************************)
(* ConfidenceScorer (examples/confidence/confidence_scorer.py, not part of *)
(* the sources at hand): the formula of its README and of the design       *)
(* document, section 4.4.  Relevance scores and coverage are in            *)
(* hundredths, a confidence score is in thousandths.                       *)
(***************************************************************************)
MaxScoreCalls == 1

\* retrieval scores of the cited chunks: 0, 0.5, 1.0 and 2.0
RelevanceScores == {0, 50, 100, 200}
ChunkIds == {"c1", "c2"}
Citations == [chunk : ChunkIds, relevance : RelevanceScores]
CitationLists == {<<>>} \cup {<<a>> : a \in Citations} \cup {<<a, b>> : a, b \in Citations}

\* the number of sentences of the response text
SentenceCounts == {0, 1, 2, 4}

RelevanceWeight == 7
CoverageWeight == 3

RECURSIVE SumRelevance(_)
SumRelevance(cs) == IF cs = <<>> THEN 0 ELSE Head(cs).relevance + SumRelevance(Tail(cs))

\* avg(relevance of the referenced citations); 0 without citations
AvgRelevance(cs) == IF cs = <<>> THEN 0 ELSE SumRelevance(cs) \div Len(cs)

\* distinct cited chunks / sentences of the text, clamped to [0,1]; 0 without sentences
Coverage(cs, sentences) ==
    LET cited == Cardinality({cs[i].chunk : i \in 1..Len(cs)})
        ratio == IF sentences = 0 THEN 0 ELSE (100 * cited) \div sentences
    IN  IF ratio > 100 THEN 100 ELSE ratio

\* confidence = (avg_relevance * 0.7) + (coverage * 0.3)
ConfidenceScore(cs, sentences) ==
    RelevanceWeight * AvgRelevance(cs) + CoverageWeight * Coverage(cs, sentences)

\* ConfidenceScorer.calculate_confidence_score(citations, enriched_chunks, response_text)
CalculateConfidenceScore(cs, sentences) ==
    /\ Len(scoreCalls) < MaxScoreCalls
    /\ scoreCalls' = Append(scoreCalls,
          [citations |-> cs, sentences |-> sentences, score |-> ConfidenceScore(cs, sentences)])
    /\ UNCHANGED <<streamVars, parserVars, coalescerVars, ispVars, framingVars, overlapVars>>

ScorerNext ==
    \E cs \in CitationLists, sentences \in SentenceCounts : CalculateConfidenceScore(cs, sentences)

\* a scorer is asked for scores
ScorerSpec == Init /\ [][ScorerNext]_vars

\* C22 (as claimed): every score lies between 0 and 1, and is 0 without citations
C22_ScoreInUnitInterval ==
    \A i \in 1..Len(scoreCalls) :
        /\ scoreCalls[i].score >= 0
        /\ scoreCalls[i].score <= 1000
        /\ scoreCalls[i].citations = <<>> => scoreCalls[i].score = 0

\* the elements the deltas on an accumulating path stand for, in arrival order
RECURSIVE ElementsOf(_, _)
ElementsOf(deltas, path) ==
    IF deltas = <<>> THEN <<>>
    ELSE (IF Head(deltas)[1] = path
          THEN <<IF path = "rows" THEN SplitCells(Head(deltas)[2]) ELSE Head(deltas)[2]>>
          ELSE <<>>) \o ElementsOf(Tail(deltas), path)

\* C23: at each of the paths rows, items and steps of every open block, the array
\* holds one element per delta on that path since the block was opened, in arrival
\* order (for rows the trimmed cells of the value), and each delta step extends the
\* array by one element at its end
C23_ArraysAppend ==
    /\ [](\A i \in 1..Len(streamingBlocks) : \A path \in ArrayPaths :
            LET elements == ElementsOf(openHistory[i].deltas, path) IN
            IF elements = <<>>
            THEN path \notin DOMAIN streamingBlocks[i].data
            ELSE /\ path \in DOMAIN streamingBlocks[i].data
                 /\ streamingBlocks[i].data[path] = elements)
    /\ [][\A in \in DeltaInputs :
            (in[2] \in ArrayPaths /\ OnBlockDelta(in[1], in[2], in[3])) =>
                LET old == IF MapHas(streamingBlocks, in[1])
                              /\ in[2] \in DOMAIN MapGet(streamingBlocks, in[1]).data
                           THEN MapGet(streamingBlocks, in[1]).data[in[2]]
                           ELSE <<>>
                    new == MapGet(streamingBlocks', in[1]).data[in[2]]
                IN  /\ Len(new) = Len(old) + 1
                    /\ SubSeq(new, 1, Len(old)) = old
         ]_vars

\* an open table block after two deltas on rows: two rows of two trimmed cells
C23_Witness ==
    \E i \in 1..Len(streamingBlocks) :
        /\ "rows" \in DOMAIN streamingBlocks[i].data
        /\ streamingBlocks[i].data.rows = << << <<"b">>, <<"c">> >>, << <<"b">>, <<"c">> >> >>

TimeoutMsg == <<"The server did not respond in time. Please try again.">>

\* the timeout callback has run and found the stop flag down
TimedOut == \E i \in 1..Len(errors) : errors[i] = TimeoutMsg

DecodableDataLine(line) ==
    /\ line # <<>>
    /\ Head(line) = "data:"
    /\ Trim(Tail(line)) # <<>>
    /\ Trim(Tail(line)) \in JSONTexts

\* C25: parseLine returns a result exactly for the 'data:' lines whose payload is not
\* empty and decodes as JSON, and null for every other line
C25_ResultIffDecodable ==
    \A i \in 1..Len(sseResults) :
        sseResults[i] # null <=> DecodableDataLine(sseLines[i])

\* all four lines of a sequence were told apart: a name, a decodable data line, an
\* undecodable one and an indented one
C25_Witness ==
    /\ Len(sseResults) = 4
    /\ sseLines[1] = <<"event:", " ", "block">> /\ sseResults[1] = null
    /\ sseLines[2] = <<"data:", " ", "{\"n\":1}">> /\ sseResults[2] # null
    /\ sseLines[3] = <<"data:", "{\"n\":1">> /\ sseResults[3] = null
    /\ sseLines[4] = <<" ", "data:", "{\"n\":1}">> /\ sseResults[4] = null

\* C26: whatever the state of the parser, parseSSELine returns for a line the data of
\* the result parseLine returns for it, and null when parseLine returns null
C26_LegacyAgrees ==
    \A i \in 1..Len(sseLines) : \A k \in 1..Len(legacyCalls) :
        legacyCalls[k].line = sseLines[i] =>
            IF sseResults[i] = null
            THEN legacyCalls[k].result = null
            ELSE legacyCalls[k].result = <<sseResults[i][1].data>>

\* both were handed the same data line, the parser with a name pending, and both
\* returned its data
C26_Witness ==
    /\ Len(sseLines) = 2
    /\ Len(legacyCalls) = 1
    /\ sseLines[1] = <<"event:", " ", "block">>
    /\ sseLines[2] = <<"data:", " ", "{\"n\":1}">>
    /\ legacyCalls[1].line = sseLines[2]
    /\ sseResults[2] # null
    /\ sseResults[2][1].eventName # undefined
    /\ legacyCalls[1].result = <<sseResults[2][1].data>>

\* C27 (as claimed): once stopStreaming has been called during an invocation, at the
\* fetch as at a read, the invocation handles no further line and delivers no further
\* update with streaming=true
C27_StopAlwaysEffective ==
    requestedAt # NoMark =>
        /\ nLines - linesLeft = requestedAt[2]
        /\ \A i \in (requestedAt[1] + 1)..Len(updates) : ~updates[i].streaming

\* C28: once a done event has been handled, no step changes the open blocks, the
\* completed blocks or the citations, registers a frame callback, or calls
\* onMessageUpdate or onError, and no further line is handled
C28_DoneIsTerminal ==
    [][receivedDoneEvent =>
          /\ UNCHANGED <<streamingBlocks, completedBlocks, citations, pendingUpdate, rafId,
                         updates, errors, receivedDoneEvent>>
          /\ rafQueue' \subseteq rafQueue
          /\ ~AtLine
      ]_vars

\* a done event has been handled and a later line of the same chunk is at hand
C28_Witness ==
    /\ receivedDoneEvent
    /\ pc = "lines"
    /\ linesLeft > 0

(***************************************************************************)
(* The line buffer of the read loop (useStreamingQuery.ts 209-240), on a   *)
(* given stream.  A text is a sequence of pieces; chunks are cut between   *)
(* pieces, so also inside the prefix 'data: ' and in the middle of a line. *)
(***************************************************************************)
MaxStreamLines == 2

NL == "\n"
DeltaPayload == "{\"type\":\"block_delta\"}"
DonePayload == "{\"type\":\"done\"}"
ErrorPayload == "{\"type\":\"error\"}"
BadPayload == "{\"type\":"

\* the lines a stream is made of: events, an undecodable payload, a comment, a data
\* line without the space after the colon
StreamLines == {
    <<"data:", " ", DeltaPayload>>,
    <<"data:", " ", DonePayload>>,
    <<"data:", " ", ErrorPayload>>,
    <<"data:", " ", BadPayload>>,
    <<":", "ping">>,
    <<"data:", DeltaPayload>> }

\* the streams: one or two lines, each ended by a newline, the last one possibly not
Streams ==
    LET seqs == {<<a>> : a \in StreamLines} \cup {<<a, b>> : a, b \in StreamLines}
        whole(ls) == IF Len(ls) = 1 THEN ls[1] \o <<NL>> ELSE ls[1] \o <<NL>> \o ls[2] \o <<NL>>
    IN  {whole(ls) : ls \in seqs} \cup {SubSeq(whole(ls), 1, Len(whole(ls)) - 1) : ls \in seqs}

\* buffer.split('\n')
RECURSIVE SplitLines(_, _, _)
SplitLines(s, cur, acc) ==
    IF s = <<>> THEN Append(acc, cur)
    ELSE IF Head(s) = NL THEN SplitLines(Tail(s), <<>>, Append(acc, cur))
    ELSE SplitLines(Tail(s), Append(cur, Head(s)), acc)

\* line.startsWith('data: ')
IsDataLine(line) == Len(line) >= 2 /\ line[1] = "data:" /\ line[2] = " "

\* for (const line of lines): the payloads handled and the stop flag after the loop
RECURSIVE HandleLines(_, _, _)
HandleLines(lines, done, stop) ==
    IF lines = <<>> \/ stop THEN [handled |-> done, stop |-> stop]
    ELSE IF ~IsDataLine(Head(lines)) THEN HandleLines(Tail(lines), done, stop)
    ELSE LET payload == SubSeq(Head(lines), 3, Len(Head(lines)))   \* line.slice(6)
         IN  HandleLines(Tail(lines), Append(done, payload),
                         payload \in {<<DonePayload>>, <<ErrorPayload>>})

\* the response body of a fetch: the stream to come
OpenStream(stream) ==
    /\ wire = null
    /\ wire' = <<[sent |-> <<>>, left |-> stream, reads |-> 0, ended |-> FALSE]>>
    /\ UNCHANGED <<lineBuffer, framingStop, handled>>
    /\ UNCHANGED <<streamVars, parserVars, coalescerVars, ispVars, scorerVars, overlapVars>>

\* a read loop that handles the lines of each chunk by themselves, without a buffer
ReadFramedChunkUnbuffered(n) ==
    /\ wire # null
    /\ ~wire[1].ended /\ ~framingStop
    /\ n \in 1..Len(wire[1].left)
    /\ LET chunk == SubSeq(wire[1].left, 1, n)
           lines == SplitLines(chunk, <<>>, <<>>)
           after == HandleLines(lines, handled, framingStop)
       IN  /\ wire' = <<[wire[1] EXCEPT !.sent = @ \o chunk,
                                        !.left = SubSeq(@, n + 1, Len(@)),
                                        !.reads = @ + 1]>>
           /\ lineBuffer' = <<>>
           /\ handled' = after.handled
           /\ framingStop' = after.stop
    /\ UNCHANGED <<streamVars, parserVars, coalescerVars, ispVars, scorerVars, overlapVars>>

\* await reader.read() yields the next n pieces of the stream: buffer += ...,
\* lines = buffer.split('\n'), buffer = lines.pop() || '', and the line loop
ReadFramedChunk(n) ==
    /\ wire # null
    /\ ~wire[1].ended /\ ~framingStop
    /\ n \in 1..Len(wire[1].left)
    /\ LET chunk == SubSeq(wire[1].left, 1, n)
           parts == SplitLines(lineBuffer \o chunk, <<>>, <<>>)
           lines == SubSeq(parts, 1, Len(parts) - 1)
           after == HandleLines(lines, handled, framingStop)
       IN  /\ wire' = <<[wire[1] EXCEPT !.sent = @ \o chunk,
                                        !.left = SubSeq(@, n + 1, Len(@)),
                                        !.reads = @ + 1]>>
           /\ lineBuffer' = parts[Len(parts)]
           /\ handled' = after.handled
           /\ framingStop' = after.stop
    /\ UNCHANGED <<streamVars, parserVars, coalescerVars, ispVars, scorerVars, overlapVars>>

\* await reader.read() yields done at the end of the stream: break
ReadFramedDone ==
    /\ wire # null
    /\ ~wire[1].ended /\ ~framingStop
    /\ wire[1].left = <<>>
    /\ wire' = <<[wire[1] EXCEPT !.ended = TRUE]>>
    /\ UNCHANGED <<lineBuffer, framingStop, handled>>
    /\ UNCHANGED <<streamVars, parserVars, coalescerVars, ispVars, scorerVars, overlapVars>>

\* if (stopStreamingRef.current) { await reader.cancel(); break } at the top of the loop
FramedStopBreak ==
    /\ wire # null
    /\ ~wire[1].ended /\ framingStop
    /\ wire' = <<[wire[1] EXCEPT !.ended = TRUE]>>
    /\ UNCHANGED <<lineBuffer, framingStop, handled>>
    /\ UNCHANGED <<streamVars, parserVars, coalescerVars, ispVars, scorerVars, overlapVars>>

FramingNext ==
    \/ \E stream \in Streams : OpenStream(stream)
    \/ \E n \in 1..(3 * MaxStreamLines + MaxStreamLines) : ReadFramedChunk(n)
    \/ ReadFramedDone
    \/ FramedStopBreak

\* a stream is read in chunks cut at any place
FramingSpec == Init /\ [][FramingNext]_vars

\* the positions of the newlines of a text
NewlinesOf(text) == {i \in 1..Len(text) : text[i] = NL}

\* the lines of a text that a newline ends, in order
TerminatedLines(text) ==
    LET ends == NewlinesOf(text)
        nth(k) == CHOOSE i \in ends : Cardinality({j \in ends : j < i}) = k - 1
        start(k) == IF k = 1 THEN 1 ELSE nth(k - 1) + 1
    IN  [k \in 1..Cardinality(ends) |-> SubSeq(text, start(k), nth(k) - 1)]

\* the payloads of the 'data: ' lines among lines, in order
RECURSIVE DataPayloads(_)
DataPayloads(lines) ==
    IF lines = <<>> THEN <<>>
    ELSE (IF IsDataLine(Head(lines)) THEN <<SubSeq(Head(lines), 3, Len(Head(lines)))>> ELSE <<>>)
             \o DataPayloads(Tail(lines))

\* payloads up to and with the first done or error event
UpToTerminal(payloads) ==
    LET ends == {i \in 1..Len(payloads) : payloads[i] \in {<<DonePayload>>, <<ErrorPayload>>}}
    IN  IF ends = {} THEN payloads
        ELSE SubSeq(payloads, 1, CHOOSE i \in ends : \A j \in ends : i <= j)

\* C29 (as claimed): however the stream is cut into chunks, when the loop has ended
\* every newline-terminated 'data: ' line of the stream has been handled exactly once,
\* in order
C29_EveryLineOnce ==
    (wire # null /\ wire[1].ended) =>
        handled = DataPayloads(TerminatedLines(wire[1].sent \o wire[1].left))

\* C29 (amended): however the stream is cut into chunks, the lines handled are, in
\* order and once each, the newline-terminated 'data: ' lines received so far up to
\* and with the first done or error event; no line after that event is handled, and a
\* loop that ends without such an event has received the whole stream
C29_FramingIgnoresChunks ==
    wire # null =>
        /\ handled = UpToTerminal(DataPayloads(TerminatedLines(wire[1].sent)))
        /\ wire[1].ended =>
             /\ handled = UpToTerminal(DataPayloads(TerminatedLines(wire[1].sent \o wire[1].left)))
             /\ ~framingStop => wire[1].left = <<>>

\* two delta lines, received in three chunks and so with a line cut by a chunk
\* boundary, were both handled
C29_Witness ==
    /\ wire # null
    /\ wire[1].ended
    /\ wire[1].reads = 3
    /\ wire[1].sent = <<"data:", " ", DeltaPayload, NL, "data:", " ", DeltaPayload, NL>>
    /\ handled = << <<DeltaPayload>>, <<DeltaPayload>> >>

\* the lines of a text, the last one whether a newline ends it or not
AllLines(text) ==
    IF text # <<>> /\ text[Len(text)] # NL THEN TerminatedLines(text \o <<NL>>)
    ELSE TerminatedLines(text)

\* C30 (as claimed): when the loop has ended, the 'data: ' line that the stream ended
\* with has been handled like the others, whether a newline ended it or not
C30_LastLineHandled ==
    (wire # null /\ wire[1].ended) =>
        handled = UpToTerminal(DataPayloads(AllLines(wire[1].sent \o wire[1].left)))

(***************************************************************************)
(* Block identity and order in the snapshots                               *)
(***************************************************************************)
\* the block ids of the snapshot buildBlocksFromState would build now: those of the
\* completed blocks, then those of the open ones
SnapshotIds ==
    [i \in 1..Len(closedHistory) |-> closedHistory[i].block_id]
        \o [i \in 1..Len(streamingBlocks) |-> streamingBlocks[i].block_id]

\* C31 (as claimed): no block id is both open and completed, no block id occurs twice
\* among the completed blocks, and so the snapshot built from the state holds each
\* block id at most once
C31_IdsUnique ==
    /\ Len(closedHistory) = Len(completedBlocks)
    /\ \A i \in 1..Len(streamingBlocks), j \in 1..Len(closedHistory) :
          streamingBlocks[i].block_id # closedHistory[j].block_id
    /\ \A i, j \in 1..Len(closedHistory) :
          i # j => closedHistory[i].block_id # closedHistory[j].block_id
    /\ \A i, j \in 1..Len(SnapshotIds) : i # j => SnapshotIds[i] # SnapshotIds[j]

\* the updates that carry blocks
BlockUpdates == {u \in 1..Len(updates) : "blocks" \in DOMAIN updates[u]}

\* C32 (as claimed): two blocks that both appear in two snapshots stand in the same
\* order in both
C32_OrderStable ==
    \A u, v \in BlockUpdates :
        \A i, j \in 1..Len(updates[u].blocks), k, l \in 1..Len(updates[v].blocks) :
            ( /\ i < j
              /\ updates[u].blocks[i].data.id = updates[v].blocks[k].data.id
              /\ updates[u].blocks[j].data.id = updates[v].blocks[l].data.id
              /\ updates[u].blocks[i].data.id # updates[u].blocks[j].data.id
              /\ k # l )
            => k < l

\* C33 (as claimed): in the snapshot built from the state, and in every snapshot
\* delivered, data.id of a block is the block_id of the block it was built from (so,
\* one of the block ids the stream uses)
C33_IdIsBlockId ==
    /\ LET snapshot == buildBlocksFromState(completedBlocks, streamingBlocks)
       IN  /\ Len(snapshot) = Len(SnapshotIds)
           /\ \A i \in 1..Len(snapshot) : snapshot[i].data.id = SnapshotIds[i]
    /\ \A u \in BlockUpdates :
          \A i \in 1..Len(updates[u].blocks) : updates[u].blocks[i].data.id \in BlockIds

(***************************************************************************)
(* The confidence of the final snapshot                                    *)
(***************************************************************************)
\* the scores of the confidence_update events handled so far
UpdateScoresSeen ==
    SelectSeq(scoresSeen, LAMBDA e : e.type = "confidence_update")

\* the snapshot the done branch delivered
DoneSnapshot ==
    updates[CHOOSE u \in 1..Len(updates) :
                /\ "confidence" \in DOMAIN updates[u]
                /\ \A v \in 1..Len(updates) : "confidence" \in DOMAIN updates[v] => v <= u]

\* C34 (as claimed): the confidence of the snapshot of the done event is the score the
\* event carries, and without one the score of the latest confidence_update event of
\* the stream
C34_FinalConfidence ==
    receivedDoneEvent =>
        LET done == scoresSeen[Len(scoresSeen)]
        IN  /\ done.type = "done"
            /\ done.score # <<>> => DoneSnapshot.confidence = done.score[1]
            /\ (done.score = <<>> /\ UpdateScoresSeen # <<>>) =>
                  DoneSnapshot.confidence = UpdateScoresSeen[Len(UpdateScoresSeen)].score[1]

(***************************************************************************)
(* Failure reports                                                         *)
(***************************************************************************)
\* C35 (as claimed): an invocation calls onError at most once, whatever fails
C35_OneFailureReport == Len(errors) <= 1

(***************************************************************************)
(* Two overlapping streamQuery invocations of one hook.  They share the    *)
(* three refs; the reader, the timer callback and the locals belong to the *)
(* invocation.  The streams carry block events (fullResponse stays ''), a  *)
(* chunk holds complete lines, and the synchronous handling of a chunk is  *)
(* one step.                                                               *)
(***************************************************************************)
MaxOverlapChunks == 2

Invocations == {1, 2}

\* if (timeoutRef.current) { clearTimeout(timeoutRef.current); timeoutRef.current = null }
TimerCleared(ivs) ==
    IF sharedTimeoutRef # 0 THEN [ivs EXCEPT ![sharedTimeoutRef].timer = FALSE] ELSE ivs

\* the finally block of invocation i
InvocationFinally(i) ==
    /\ sharedReaderRef' = 0
    /\ sharedStopRef' = FALSE
    /\ sharedTimeoutRef' = 0
    /\ invocations' = [TimerCleared(invocations) EXCEPT ![i].pc = "finished"]

\* streamQuery(query, options) is called
InvokeStreamQuery(i) ==
    /\ invocations[i].pc = "idle"
    /\ sharedStopRef' = FALSE
    /\ invocations' = [invocations EXCEPT ![i].pc = "fetch"]
    /\ UNCHANGED <<sharedReaderRef, sharedTimeoutRef, stopMark>>
    /\ UNCHANGED <<streamVars, parserVars, coalescerVars, ispVars, scorerVars, framingVars>>

\* await fetch(...) rejects: catch, finally
InvocationFetchRejects(i) ==
    /\ invocations[i].pc = "fetch"
    /\ InvocationFinally(i)
    /\ UNCHANGED stopMark
    /\ UNCHANGED <<streamVars, parserVars, coalescerVars, ispVars, scorerVars, framingVars>>

\* the reader is obtained and the timeout is armed
InvocationFetchOk(i) ==
    /\ invocations[i].pc = "fetch"
    /\ sharedReaderRef' = i
    /\ sharedTimeoutRef' = i
    /\ invocations' = [invocations EXCEPT ![i].timer = TRUE,
                                          ![i].pc = LoopTop(sharedStopRef)]
    /\ UNCHANGED <<sharedStopRef, stopMark>>
    /\ UNCHANGED <<streamVars, parserVars, coalescerVars, ispVars, scorerVars, framingVars>>

\* the setTimeout callback of invocation i
InvocationTimeout(i) ==
    /\ invocations[i].timer
    /\ invocations' = [invocations EXCEPT ![i].timer = FALSE,
                                          ![i].cancelled = @ \/ ~sharedStopRef]
    /\ sharedStopRef' = TRUE
    /\ UNCHANGED <<sharedReaderRef, sharedTimeoutRef, stopMark>>
    /\ UNCHANGED <<streamVars, parserVars, coalescerVars, ispVars, scorerVars, framingVars>>

\* stopStreaming()
StopStreamingShared ==
    /\ IF sharedReaderRef # 0
       THEN /\ sharedStopRef' = TRUE
            /\ invocations' = [TimerCleared(invocations) EXCEPT ![sharedReaderRef].cancelled = TRUE]
            /\ sharedReaderRef' = 0
       ELSE /\ invocations' = TimerCleared(invocations)
            /\ UNCHANGED <<sharedStopRef, sharedReaderRef>>
    /\ sharedTimeoutRef' = 0
    /\ stopMark' = IF stopMark = null /\ \A i \in Invocations : invocations[i].pc = "read"
                   THEN <<[i \in Invocations |-> invocations[i].handled]>>
                   ELSE stopMark
    /\ UNCHANGED <<streamVars, parserVars, coalescerVars, ispVars, scorerVars, framingVars>>

\* await reader.read() of invocation i yields a chunk of event lines, the last of them
\* a done event or not: the timeout is cleared, the lines are handled unless the stop
\* flag is up, and the loop goes to its top
InvocationReadChunk(i, done) ==
    /\ invocations[i].pc = "read"
    /\ ~invocations[i].cancelled
    /\ invocations[i].handled < MaxOverlapChunks
    /\ LET stop == sharedStopRef \/ done
       IN  /\ sharedStopRef' = stop
           /\ invocations' = [TimerCleared(invocations) EXCEPT
                                  ![i].handled = IF sharedStopRef THEN @ ELSE @ + 1,
                                  ![i].pc = LoopTop(stop)]
    /\ sharedTimeoutRef' = 0
    /\ UNCHANGED <<sharedReaderRef, stopMark>>
    /\ UNCHANGED <<streamVars, parserVars, coalescerVars, ispVars, scorerVars, framingVars>>

\* await reader.read() of invocation i yields done: the code after the loop, finally
InvocationReadDone(i) ==
    /\ invocations[i].pc = "read"
    /\ InvocationFinally(i)
    /\ UNCHANGED stopMark
    /\ UNCHANGED <<streamVars, parserVars, coalescerVars, ispVars, scorerVars, framingVars>>

\* await reader.cancel() at the top of the loop resolves: break, the code after the
\* loop, finally
InvocationCancelResolved(i) ==
    /\ invocations[i].pc = "cancel"
    /\ InvocationFinally(i)
    /\ UNCHANGED stopMark
    /\ UNCHANGED <<streamVars, parserVars, coalescerVars, ispVars, scorerVars, framingVars>>

OverlapNext ==
    \/ \E i \in Invocations : InvokeStreamQuery(i)
    \/ \E i \in Invocations : InvocationFetchRejects(i)
    \/ \E i \in Invocations : InvocationFetchOk(i)
    \/ \E i \in Invocations : InvocationTimeout(i)
    \/ StopStreamingShared
    \/ \E i \in Invocations, done \in BOOLEAN : InvocationReadChunk(i, done)
    \/ \E i \in Invocations : InvocationReadDone(i)
    \/ \E i \in Invocations : InvocationCancelResolved(i)

\* two invocations of one hook
OverlapSpec == Init /\ [][OverlapNext]_vars

\* C36 (as claimed): after stopStreaming was called with both invocations in their read
\* loops, neither invocation handles another event line
C36_StopStopsAll ==
    stopMark # null =>
        \A i \in Invocations : invocations[i].handled = stopMark[1][i]

(***************************************************************************)
(* The frame scheduler                                                     *)
(***************************************************************************)
\* C37: pendingUpdate is true exactly when rafId is non-null, the frame callbacks
\* registered are the one rafId names and no other, and no step registers a frame
\* callback while an update is pending
C37_SchedulerConsistent ==
    /\ [](pendingUpdate <=> rafId # 0)
    /\ [](rafQueue = IF rafId # 0 THEN {rafId} ELSE {})
    /\ [](Cardinality(rafQueue) <= 1)
    /\ [][pendingUpdate => rafQueue' \subseteq rafQueue]_vars

\* two blocks were opened with no frame in between: the second scheduleUpdate call
\* found the update pending
C37_Witness ==
    /\ pendingUpdate
    /\ rafId # 0
    /\ Len(openHistory) = 2
    /\ updates = <<>>

====
